---- MODULE Spec2Model ----
(***************************************************************************)
(* A model of the Ry scanner (crates/ry_lexer/src/lib.rs).                 *)
(*                                                                         *)
(* A source text is a sequence of characters; a character is a string:     *)
(* the character itself for printable ASCII, and a name for the others     *)
(* ("NUL" is U+0000, "BACKTICK" is U+0060, "U+00E9" and "U+0661" are       *)
(* two-byte characters).                                                   *)
(* Offsets are byte offsets, as in the code: a character advances the      *)
(* location by its UTF-8 length.                                           *)
(***************************************************************************)
EXTENDS Integers, Sequences, FiniteSets, TLC

\* `let x = e;` followed by the rest of the block: the value of e is bound
\* to the parameter of the rest.
Let(e, rest(_)) == rest(e)

\* The same, with the value of e computed before the rest is entered.
Bind(e, rest(_)) == CHOOSE r \in {rest(x) : x \in {e}} : TRUE

\* ------------------------------------------------------------------------
\* Characters
\* ------------------------------------------------------------------------

\* '\0': what chars.next().unwrap_or('\0') yields past the end of the text,
\* and also a character a text may contain.
NUL == "NUL"

BACKSLASH == "\\"
DQUOTE == "\""
SQUOTE == "'"
BACKTICK == "BACKTICK"
LF == "\n"

\* char::len_utf8 for the characters of the model.
len_utf8(c) == IF c \in {"U+00E9", "U+0661"} THEN 2 ELSE 1

\* Code point of a character of the model (`char as u32`).
CodePoint(c) ==
    CASE c = NUL -> 0
      [] c = LF -> 10
      [] c = " " -> 32
      [] c = "!" -> 33
      [] c = DQUOTE -> 34
      [] c = "#" -> 35
      [] c = "%" -> 37
      [] c = "&" -> 38
      [] c = SQUOTE -> 39
      [] c = "(" -> 40
      [] c = ")" -> 41
      [] c = "*" -> 42
      [] c = "+" -> 43
      [] c = "," -> 44
      [] c = "-" -> 45
      [] c = "." -> 46
      [] c = "/" -> 47
      [] c = "0" -> 48
      [] c = "1" -> 49
      [] c = ":" -> 58
      [] c = ";" -> 59
      [] c = "<" -> 60
      [] c = "=" -> 61
      [] c = ">" -> 62
      [] c = "?" -> 63
      [] c = "@" -> 64
      [] c = "U" -> 85
      [] c = "[" -> 91
      [] c = BACKSLASH -> 92
      [] c = "]" -> 93
      [] c = "^" -> 94
      [] c = "_" -> 95
      [] c = BACKTICK -> 96
      [] c = "a" -> 97
      [] c = "b" -> 98
      [] c = "c" -> 99
      [] c = "d" -> 100
      [] c = "e" -> 101
      [] c = "f" -> 102
      [] c = "g" -> 103
      [] c = "h" -> 104
      [] c = "i" -> 105
      [] c = "l" -> 108
      [] c = "m" -> 109
      [] c = "n" -> 110
      [] c = "o" -> 111
      [] c = "p" -> 112
      [] c = "r" -> 114
      [] c = "s" -> 115
      [] c = "t" -> 116
      [] c = "u" -> 117
      [] c = "w" -> 119
      [] c = "x" -> 120
      [] c = "y" -> 121
      [] c = "{" -> 123
      [] c = "|" -> 124
      [] c = "}" -> 125
      [] c = "~" -> 126
      [] c = "U+00E9" -> 233
      [] c = "U+0661" -> 1633

\* The letters of the model: all of them are XID_Start and XID_Continue.
Letters ==
    {"U", "a", "b", "c", "d", "e", "f", "g", "h", "i", "l", "m", "n", "o", "p", "r",
     "s", "t", "u", "w", "x", "y", "U+00E9"}

\* The decimal digits of the model; U+0661 (ARABIC-INDIC DIGIT ONE) is a
\* digit for Unicode (XID_Continue, numeric) but not an ASCII digit.
AsciiDigits == {"0", "1"}

is_whitespace(c) == c \in {" ", LF}

is_id_start(c) == c = "_" \/ c \in Letters

is_id_continue(c) == c \in Letters \cup AsciiDigits \cup {"_", "U+0661"}

\* char::is_alphanumeric
is_alphanumeric(c) == c \in Letters \cup AsciiDigits \cup {"U+0661"}

\* char::is_ascii_hexdigit
is_ascii_hexdigit(c) == c \in {"0", "1", "a", "b", "c", "d", "e", "f"}

\* Value of a hexadecimal digit (u32::from_str_radix(.., 16), one digit).
HexVal(c) ==
    CASE c = "0" -> 0
      [] c = "1" -> 1
      [] c = "a" -> 10
      [] c = "b" -> 11
      [] c = "c" -> 12
      [] c = "d" -> 13
      [] c = "e" -> 14
      [] c = "f" -> 15

\* number::decimal
decimal(c) == c \in AsciiDigits

\* ------------------------------------------------------------------------
\* Spans, tokens, the interner
\* ------------------------------------------------------------------------

Span(s, e) == [start |-> s, end |-> e]

Token(raw, span) == [raw |-> raw, span |-> span]

Error(kind) == "Error(" \o kind \o ")"

\* The kinds of the errors of the scanner (LexError).
ErrorKinds ==
    {"UnexpectedChar", "UnterminatedStringLiteral", "UnterminatedCharLiteral",
     "UnterminatedWrappedIdentifier", "EmptyCharLiteral", "MoreThanOneCharInCharLiteral",
     "EmptyWrappedIdentifier", "EmptyEscapeSequence", "UnknownEscapeSequence",
     "ExpectedOpenBracketInUnicodeEscapeSequence", "ExpectedDigitInUnicodeEscapeSequence",
     "ExpectedCloseBracketInUnicodeEscapeSequence", "InvalidUnicodeEscapeSequence",
     "ExpectedOpenBracketInByteEscapeSequence", "ExpectedDigitInByteEscapeSequence",
     "ExpectedCloseBracketInByteEscapeSequence", "InvalidByteEscapeSequence"}

IsErrorToken(tok) == tok.raw \in {Error(k) : k \in ErrorKinds}

\* The reserved words (ry_ast::token::RESERVED), as character sequences.
RESERVED ==
    {<<"i", "f">>, <<"a", "s">>, <<"f", "u", "n">>, <<"d", "y", "n">>,
     <<"p", "u", "b">>, <<"u", "s", "e">>, <<"l", "e", "t">>,
     <<"t", "r", "u", "e">>, <<"f", "a", "l", "s", "e">>, <<"e", "l", "s", "e">>,
     <<"w", "h", "i", "l", "e">>, <<"e", "n", "u", "m">>, <<"i", "m", "p", "l">>,
     <<"i", "m", "p", "o", "r", "t">>, <<"s", "t", "r", "u", "c", "t">>,
     <<"t", "r", "a", "i", "t">>, <<"w", "h", "e", "r", "e">>}

\* The keyword token of a reserved word.
Keyword(name) ==
    CASE name = <<"i", "f">> -> "if"
      [] name = <<"a", "s">> -> "as"
      [] name = <<"f", "u", "n">> -> "fun"
      [] name = <<"d", "y", "n">> -> "dyn"
      [] name = <<"p", "u", "b">> -> "pub"
      [] name = <<"u", "s", "e">> -> "use"
      [] name = <<"l", "e", "t">> -> "let"
      [] name = <<"t", "r", "u", "e">> -> "true"
      [] name = <<"f", "a", "l", "s", "e">> -> "false"
      [] name = <<"e", "l", "s", "e">> -> "else"
      [] name = <<"w", "h", "i", "l", "e">> -> "while"
      [] name = <<"e", "n", "u", "m">> -> "enum"
      [] name = <<"i", "m", "p", "l">> -> "impl"
      [] name = <<"i", "m", "p", "o", "r", "t">> -> "import"
      [] name = <<"s", "t", "r", "u", "c", "t">> -> "struct"
      [] name = <<"t", "r", "a", "i", "t">> -> "trait"
      [] name = <<"w", "h", "e", "r", "e">> -> "where"

\* Interner::default(): no text interned yet. The interner is the sequence
\* of the interned texts; the symbol of a text is its index.
EmptyInterner == <<>>

\* Interner::get_or_intern: the symbol of `name`, interning it first when it
\* is new. Returns the interner and the symbol.
get_or_intern(interner, name) ==
    IF \E s \in 1..Len(interner) : interner[s] = name
    THEN [interner |-> interner,
          symbol |-> CHOOSE s \in 1..Len(interner) : interner[s] = name]
    ELSE [interner |-> Append(interner, name), symbol |-> Len(interner) + 1]

\* ------------------------------------------------------------------------
\* The scanner
\* ------------------------------------------------------------------------

\* Lexer::new. `idx` is the index in the text of the current character: the
\* position of the `chars` iterator is idx + 1.
Lexer_new(source, interner) ==
    [source |-> source,
     interner |-> interner,
     idx |-> 1,
     location |-> 0,
     scanned_identifier |-> 0,
     scanned_char |-> 0,
     scanned_string |-> <<>>]

\* The field `current`.
Current(lx) == IF lx.idx <= Len(lx.source) THEN lx.source[lx.idx] ELSE NUL

\* The field `next`.
NextChar(lx) == IF lx.idx + 1 <= Len(lx.source) THEN lx.source[lx.idx + 1] ELSE NUL

eof(lx) == Current(lx) = NUL

advance(lx) ==
    [lx EXCEPT !.idx = @ + 1, !.location = @ + len_utf8(Current(lx))]

advance_twice(lx) == advance(advance(lx))

current_char_span(lx) == Span(lx.location, lx.location + 1)

span_from(lx, start_location) == Span(start_location, lx.location)

\* What a scanning function gives back: the scanner after it, and the token.
Ret(lx, tok) == [lx |-> lx, tok |-> tok]

advance_with(lx, raw) == Ret(advance(lx), Token(raw, current_char_span(lx)))

advance_twice_with(lx, raw) ==
    Ret(advance_twice(lx), Token(raw, Span(lx.location, lx.location + 2)))

RECURSIVE eat_whitespaces(_)
eat_whitespaces(lx) ==
    IF is_whitespace(Current(lx)) THEN eat_whitespaces(advance(lx)) ELSE lx

\* Byte offset of the character at index i of a text (of the end of the text
\* for i = Len + 1).
RECURSIVE ByteOffset(_, _)
ByteOffset(source, i) ==
    IF i <= 1 THEN 0 ELSE ByteOffset(source, i - 1) + len_utf8(source[i - 1])

\* &source[a..b]: the characters of the text between two byte offsets.
Slice(source, a, b) ==
    Let(CHOOSE i \in 1..(Len(source) + 1) : ByteOffset(source, i) >= a
                     /\ \A j \in 1..(i - 1) : ByteOffset(source, j) < a, LAMBDA first :
    Let({i \in 1..Len(source) : ByteOffset(source, i) >= a /\ ByteOffset(source, i) < b}, LAMBDA idxs :
        IF a >= b THEN <<>> ELSE SubSeq(source, first, first + Cardinality(idxs) - 1)))

\* The closures handed to advance_while, by the name of their caller.
closure(f, current, next) ==
    CASE f = "eat_wrapped_id" -> is_alphanumeric(current) \/ current = "_"
      [] f = "eat_comment" -> current # LF
      [] f = "eat_doc_comment" -> current # LF
      [] f = "eat_name" -> is_id_continue(current)
      [] f = "eat_number" -> decimal(current)

\* advance_while: advances while f(current, next) holds and the scanner is
\* not at end-of-file.
RECURSIVE advance_while(_, _)
advance_while(lx, f) ==
    IF closure(f, Current(lx), NextChar(lx)) /\ ~eof(lx)
    THEN advance_while(advance(lx), f)
    ELSE lx

\* --- escape sequences ---------------------------------------------------

\* Result<char, LexError> of eat_escape, with the scanner after it.
EscOk(lx, c) == [lx |-> lx, ok |-> TRUE, c |-> c, raw |-> "", span |-> Span(0, 0)]
EscErr(lx, raw, span) == [lx |-> lx, ok |-> FALSE, c |-> 0, raw |-> raw, span |-> span]

\* char::MAX as u32
CharMax == 1114111

\* char::from_u32(v).is_some(): a scalar value that is not a surrogate.
from_u32_is_some(v) == v <= CharMax /\ ~(v >= 55296 /\ v <= 57343)

\* The loop `for _ in 0..n` over the digits of an escape: stops at the first
\* character that is not a hexadecimal digit (ok = FALSE), else after n
\* digits. `value` is the number read so far; once it is above char::MAX it
\* is no longer multiplied (from_u32 fails on every such value, and the
\* eight digits always fit the u32 of the code).
RECURSIVE eat_hex_digits(_, _, _)
eat_hex_digits(lx, n, value) ==
    IF n = 0 THEN [lx |-> lx, ok |-> TRUE, value |-> value]
    ELSE IF ~is_ascii_hexdigit(Current(lx)) THEN [lx |-> lx, ok |-> FALSE, value |-> value]
    ELSE eat_hex_digits(advance(lx), n - 1,
                        IF value > CharMax THEN value ELSE value * 16 + HexVal(Current(lx)))

ByteEscapeDigits == 2
UnicodeEscapeDigits == 4
LongUnicodeEscapeDigits == 8

\* The arm 'u' of eat_escape; lx is at the 'u'.
eat_unicode_escape(lx) ==
    Let(advance(lx), LAMBDA l1 :
    IF Current(l1) # "{"
    THEN EscErr(l1, "ExpectedOpenBracketInUnicodeEscapeSequence", current_char_span(l1))
    ELSE Let(eat_hex_digits(advance(l1), UnicodeEscapeDigits, 0), LAMBDA d :
         IF ~d.ok
         THEN EscErr(d.lx, "ExpectedDigitInUnicodeEscapeSequence", current_char_span(d.lx))
         ELSE IF Current(d.lx) # "}"
         THEN EscErr(d.lx, "ExpectedCloseBracketInUnicodeEscapeSequence", current_char_span(d.lx))
         ELSE IF from_u32_is_some(d.value)
         THEN EscOk(advance(d.lx), d.value)
         ELSE EscErr(advance(d.lx), "InvalidUnicodeEscapeSequence", current_char_span(d.lx))))

\* The arm 'U' of eat_escape; lx is at the 'U'.
eat_long_unicode_escape(lx) ==
    Let(advance(lx), LAMBDA l1 :
    IF Current(l1) # "{"
    THEN EscErr(l1, "ExpectedOpenBracketInUnicodeEscapeSequence", current_char_span(l1))
    ELSE Let(eat_hex_digits(advance(l1), LongUnicodeEscapeDigits, 0), LAMBDA d :
         IF ~d.ok
         THEN EscErr(d.lx, "ExpectedDigitInUnicodeEscapeSequence", current_char_span(d.lx))
         ELSE IF Current(d.lx) # "}"
         THEN EscErr(d.lx, "ExpectedCloseBracketInUnicodeEscapeSequence", current_char_span(d.lx))
         ELSE IF from_u32_is_some(d.value)
         THEN EscOk(advance(d.lx), d.value)
         ELSE EscErr(advance(d.lx), "InvalidUnicodeEscapeSequence", current_char_span(d.lx))))

\* The digit error reported at the character before the offending one.
eat_byte_escape_span_before(lx) ==
    Let(advance(lx), LAMBDA l1 :
    IF Current(l1) # "{"
    THEN EscErr(l1, "ExpectedOpenBracketInByteEscapeSequence", current_char_span(l1))
    ELSE Let(eat_hex_digits(advance(l1), ByteEscapeDigits, 0), LAMBDA d :
         IF ~d.ok
         THEN EscErr(d.lx, "ExpectedDigitInByteEscapeSequence",
                     Span(d.lx.location - 1, d.lx.location))
         ELSE IF Current(d.lx) # "}"
         THEN EscErr(d.lx, "ExpectedCloseBracketInByteEscapeSequence", current_char_span(d.lx))
         ELSE EscOk(advance(d.lx), d.value)))

\* The arm 'x' of eat_escape; lx is at the 'x'.
eat_byte_escape(lx) ==
    Let(advance(lx), LAMBDA l1 :
    IF Current(l1) # "{"
    THEN EscErr(l1, "ExpectedOpenBracketInByteEscapeSequence", current_char_span(l1))
    ELSE Let(eat_hex_digits(advance(l1), ByteEscapeDigits, 0), LAMBDA d :
         IF ~d.ok
         THEN EscErr(d.lx, "ExpectedDigitInByteEscapeSequence", current_char_span(d.lx))
         ELSE IF Current(d.lx) # "}"
         THEN EscErr(d.lx, "ExpectedCloseBracketInByteEscapeSequence", current_char_span(d.lx))
         ELSE IF from_u32_is_some(d.value)
         THEN EscOk(advance(d.lx), d.value)
         ELSE EscErr(advance(d.lx), "InvalidByteEscapeSequence",
                     Span(d.lx.location - 4, d.lx.location))))

\* eat_escape; lx is at the backslash. The error arms that `return` leave
\* the scanner at the offending character; every other arm ends with the
\* advance() at the end of the function.
eat_escape(lx) ==
    Let(advance(lx), LAMBDA l1 :
    Let(Current(l1), LAMBDA c :
        CASE c = "b" -> EscOk(advance(l1), 8)
          [] c = "f" -> EscOk(advance(l1), 12)
          [] c = "n" -> EscOk(advance(l1), 10)
          [] c = "r" -> EscOk(advance(l1), 13)
          [] c = "t" -> EscOk(advance(l1), 9)
          [] c = SQUOTE -> EscOk(advance(l1), 39)
          [] c = DQUOTE -> EscOk(advance(l1), 34)
          [] c = BACKSLASH -> EscOk(advance(l1), 92)
          [] c = NUL -> EscErr(advance(l1), "EmptyEscapeSequence", current_char_span(l1))
          [] c = "u" -> eat_unicode_escape(l1)
          [] c = "U" -> eat_long_unicode_escape(l1)
          [] c = "x" -> eat_byte_escape(l1)
          [] OTHER -> EscErr(advance(l1), "UnknownEscapeSequence", current_char_span(l1))))

\* --- literals -----------------------------------------------------------

\* A size of 2 or 3 read as "more than one" only from 3 on.
char_literal_token_from_three(lx, start_location, size) ==
    IF size >= 3
    THEN Ret(lx, Token(Error("MoreThanOneCharInCharLiteral"), span_from(lx, start_location)))
    ELSE IF size = 0
    THEN Ret(lx, Token(Error("EmptyCharLiteral"), span_from(lx, start_location)))
    ELSE Ret(lx, Token("CharLiteral", span_from(lx, start_location)))

\* The end of eat_char, after the closing quote: the token for `size`
\* characters between the quotes.
char_literal_token(lx, start_location, size) ==
    IF size >= 2
    THEN Ret(lx, Token(Error("MoreThanOneCharInCharLiteral"), span_from(lx, start_location)))
    ELSE IF size = 0
    THEN Ret(lx, Token(Error("EmptyCharLiteral"), span_from(lx, start_location)))
    ELSE Ret(lx, Token("CharLiteral", span_from(lx, start_location)))

\* The loop of eat_char; size counts the characters scanned between the
\* quotes.
RECURSIVE eat_char_loop(_, _, _)
eat_char_loop(lx, start_location, size) ==
    IF Current(lx) = SQUOTE
    THEN char_literal_token(advance(lx), start_location, size)
    ELSE IF Current(lx) = LF \/ eof(lx)
    THEN Ret(lx, Token(Error("UnterminatedCharLiteral"), span_from(lx, start_location)))
    ELSE IF Current(lx) = BACKSLASH
    THEN Let(eat_escape(lx), LAMBDA e :
         IF e.ok
         THEN eat_char_loop([e.lx EXCEPT !.scanned_char = e.c], start_location, size + 1)
         ELSE Ret(e.lx, Token(Error(e.raw), e.span)))
    ELSE eat_char_loop(advance([lx EXCEPT !.scanned_char = CodePoint(Current(lx))]),
                       start_location, size + 1)

eat_char(lx) == eat_char_loop(advance(lx), lx.location, 0)

\* The loop of eat_string and what follows it.
RECURSIVE eat_string_loop(_, _)
eat_string_loop(lx, start_location) ==
    IF ~eof(lx) /\ Current(lx) # LF /\ Current(lx) # DQUOTE
    THEN IF Current(lx) = BACKSLASH
         THEN Let(eat_escape(lx), LAMBDA e :
              IF e.ok
              THEN eat_string_loop([e.lx EXCEPT !.scanned_string = Append(@, e.c)],
                                   start_location)
              ELSE Ret(e.lx, Token(Error(e.raw), e.span)))
         ELSE eat_string_loop(
                  advance([lx EXCEPT !.scanned_string = Append(@, CodePoint(Current(lx)))]),
                  start_location)
    ELSE IF eof(lx) \/ Current(lx) = LF
    THEN Ret(lx, Token(Error("UnterminatedStringLiteral"), span_from(lx, start_location)))
    ELSE Let(advance(lx), LAMBDA l1 :
         Ret(l1, Token("StringLiteral", span_from(l1, start_location))))

\* The start of the literal taken after the opening quote is consumed.
eat_string_late_start(lx) ==
    eat_string_loop(advance([lx EXCEPT !.scanned_string = <<>>]), lx.location + 1)

eat_string(lx) ==
    eat_string_loop(advance([lx EXCEPT !.scanned_string = <<>>]), lx.location)

\* --- wrapped identifiers, comments, names, numbers ----------------------

eat_wrapped_id(lx) ==
    LET start_location == lx.location IN
    Let(advance_while(advance(lx), "eat_wrapped_id"), LAMBDA l1 :
    Let(Tail(Slice(lx.source, start_location, l1.location)), LAMBDA name :
        IF Current(l1) # BACKTICK
        THEN Ret(l1, Token(Error("UnterminatedWrappedIdentifier"), span_from(l1, start_location)))
        ELSE IF name = <<>>
        THEN Ret(l1, Token(Error("EmptyWrappedIdentifier"), span_from(l1, start_location)))
        ELSE Let(advance(l1), LAMBDA l2 :
             Let(get_or_intern(l2.interner, name), LAMBDA r :
                 Ret([l2 EXCEPT !.interner = r.interner, !.scanned_identifier = r.symbol],
                     Token("Identifier", span_from(l2, start_location)))))))

\* eat_comment; the first '/' is already consumed.
eat_comment(lx) ==
    LET start_location == lx.location - 1 IN
    Let(advance_while(advance(lx), "eat_comment"), LAMBDA l1 :
        Ret(l1, Token("Comment", span_from(l1, start_location))))

\* eat_doc_comment; the first '/' is already consumed.
eat_doc_comment(lx, global) ==
    LET start_location == lx.location - 1 IN
    Let(advance_while(advance_twice(lx), "eat_doc_comment"), LAMBDA l1 :
        Ret(l1, Token(IF global THEN "GlobalDocComment" ELSE "LocalDocComment",
                      span_from(l1, start_location))))

\* The name interned without its last character.
eat_name_short(lx) ==
    LET start_location == lx.location IN
    Let(advance_while(lx, "eat_name"), LAMBDA l1 :
    Let(Slice(lx.source, start_location, l1.location), LAMBDA name :
        IF name \in RESERVED
        THEN Ret(l1, Token(Keyword(name), span_from(l1, start_location)))
        ELSE Let(get_or_intern(l1.interner, SubSeq(name, 1, Len(name) - 1)), LAMBDA r :
             Ret([l1 EXCEPT !.interner = r.interner, !.scanned_identifier = r.symbol],
                 Token("Identifier", span_from(l1, start_location))))))

eat_name(lx) ==
    LET start_location == lx.location IN
    Let(advance_while(lx, "eat_name"), LAMBDA l1 :
    Let(Slice(lx.source, start_location, l1.location), LAMBDA name :
        IF name \in RESERVED
        THEN Ret(l1, Token(Keyword(name), span_from(l1, start_location)))
        ELSE Let(get_or_intern(l1.interner, name), LAMBDA r :
             Ret([l1 EXCEPT !.interner = r.interner, !.scanned_identifier = r.symbol],
                 Token("Identifier", span_from(l1, start_location))))))

\* number::eat_number, for a run of decimal digits: an integer literal over
\* the run.
eat_number(lx) ==
    LET start_location == lx.location IN
    Let(advance_while(lx, "eat_number"), LAMBDA l1 :
        Ret(l1, Token("IntegerLiteral", span_from(l1, start_location))))

\* --- next_token ---------------------------------------------------------

\* The end-of-file token returned the way the one-character tokens are.
EndOfFileTokenAdvancing(lx) == advance_with(lx, "EndOfFile")

\* The end-of-file arm of next_token: the token, and the scanner unchanged.
EndOfFileToken(lx) == Ret(lx, Token("EndOfFile", current_char_span(lx)))

\* The comment classified by the second slash instead of the third character.
eat_any_comment_on_current(lx) ==
    Let(advance(lx), LAMBDA l1 :
    IF Current(l1) = "!" THEN eat_doc_comment(l1, TRUE)
    ELSE IF Current(l1) = "/" THEN eat_doc_comment(l1, FALSE)
    ELSE eat_comment(l1))

\* The arm ('/', '/') of next_token.
eat_any_comment(lx) ==
    Let(advance(lx), LAMBDA l1 :
    IF NextChar(l1) = "!" THEN eat_doc_comment(l1, TRUE)
    ELSE IF NextChar(l1) = "/" THEN eat_doc_comment(l1, FALSE)
    ELSE eat_comment(l1))

\* The unexpected character reported and not consumed.
eat_other_stuck(lx, c, n) ==
    IF decimal(c) \/ (c = "." /\ decimal(n)) THEN eat_number(lx)
    ELSE IF is_id_start(c) THEN eat_name(lx)
    ELSE IF c = "." THEN advance_with(lx, ".")
    ELSE Ret(lx, Token(Error("UnexpectedChar"), current_char_span(lx)))

\* The last arm (c, n) of next_token.
eat_other(lx, c, n) ==
    IF decimal(c) \/ (c = "." /\ decimal(n)) THEN eat_number(lx)
    ELSE IF is_id_start(c) THEN eat_name(lx)
    ELSE IF c = "." THEN advance_with(lx, ".")
    ELSE advance_with(lx, Error("UnexpectedChar"))

\* The match of next_token on (current, next), arm by arm in its order.
dispatch(lx, c, n) ==
    IF c = ":" THEN advance_with(lx, ":")
    ELSE IF c = "@" THEN advance_with(lx, "@")
    ELSE IF c = DQUOTE THEN eat_string(lx)
    ELSE IF c = SQUOTE THEN eat_char(lx)
    ELSE IF c = BACKTICK THEN eat_wrapped_id(lx)
    ELSE IF c = "+" /\ n = "+" THEN advance_twice_with(lx, "++")
    ELSE IF c = "+" /\ n = "=" THEN advance_twice_with(lx, "+=")
    ELSE IF c = "+" THEN advance_with(lx, "+")
    ELSE IF c = "-" /\ n = "-" THEN advance_twice_with(lx, "--")
    ELSE IF c = "-" /\ n = "=" THEN advance_twice_with(lx, "-=")
    ELSE IF c = "-" THEN advance_with(lx, "-")
    ELSE IF c = "*" /\ n = "*" THEN advance_twice_with(lx, "**")
    ELSE IF c = "*" /\ n = "=" THEN advance_twice_with(lx, "*=")
    ELSE IF c = "*" THEN advance_with(lx, "*")
    ELSE IF c = "#" THEN advance_with(lx, "#")
    ELSE IF c = "/" /\ n = "/" THEN eat_any_comment(lx)
    ELSE IF c = "/" /\ n = "=" THEN advance_twice_with(lx, "/=")
    ELSE IF c = "/" THEN advance_with(lx, "/")
    ELSE IF c = "!" /\ n = "=" THEN advance_twice_with(lx, "!=")
    ELSE IF c = "!" THEN advance_with(lx, "!")
    ELSE IF c = ">" /\ n = ">" THEN advance_twice_with(lx, ">>")
    ELSE IF c = ">" /\ n = "=" THEN advance_twice_with(lx, ">=")
    ELSE IF c = ">" THEN advance_with(lx, ">")
    ELSE IF c = "<" /\ n = "<" THEN advance_twice_with(lx, "<<")
    ELSE IF c = "<" /\ n = "=" THEN advance_twice_with(lx, "<=")
    ELSE IF c = "<" THEN advance_with(lx, "<")
    ELSE IF c = "=" /\ n = "=" THEN advance_twice_with(lx, "==")
    ELSE IF c = "=" /\ n = ">" THEN advance_twice_with(lx, "=>")
    ELSE IF c = "=" THEN advance_with(lx, "=")
    ELSE IF c = "|" /\ n = "=" THEN advance_twice_with(lx, "|=")
    ELSE IF c = "|" /\ n = "|" THEN advance_twice_with(lx, "||")
    ELSE IF c = "|" THEN advance_with(lx, "|")
    ELSE IF c = "?" THEN advance_with(lx, "?")
    ELSE IF c = "&" /\ n = "&" THEN advance_twice_with(lx, "&&")
    ELSE IF c = "&" THEN advance_with(lx, "&")
    ELSE IF c = "^" /\ n = "=" THEN advance_twice_with(lx, "^=")
    ELSE IF c = "^" THEN advance_with(lx, "^")
    ELSE IF c = "~" THEN advance_with(lx, "~")
    ELSE IF c = "(" THEN advance_with(lx, "(")
    ELSE IF c = ")" THEN advance_with(lx, ")")
    ELSE IF c = "[" THEN advance_with(lx, "[")
    ELSE IF c = "]" THEN advance_with(lx, "]")
    ELSE IF c = "{" THEN advance_with(lx, "{")
    ELSE IF c = "}" THEN advance_with(lx, "}")
    ELSE IF c = "," THEN advance_with(lx, ",")
    ELSE IF c = ";" THEN advance_with(lx, ";")
    ELSE IF c = "%" /\ n = "=" THEN advance_with(lx, "%=")
    ELSE IF c = "%" THEN advance_with(lx, "%")
    ELSE IF c = "." /\ n = "." THEN advance_twice_with(lx, "..")
    ELSE eat_other(lx, c, n)

next_token(lx) ==
    Let(eat_whitespaces(lx), LAMBDA l1 :
    IF Current(l1) = NUL
    THEN EndOfFileToken(l1)
    ELSE dispatch(l1, Current(l1), NextChar(l1)))

\* Doc comments skipped as the plain comments are.
IsReturnedNoDocs(tok) == tok.raw \notin {"Comment", "GlobalDocComment", "LocalDocComment"}

\* Whether next_no_comments returns the token or scans on.
IsReturned(tok) == tok.raw # "Comment"

RECURSIVE next_no_comments(_)
next_no_comments(lx) ==
    Let(next_token(lx), LAMBDA t :
    IF IsReturned(t.tok) THEN t ELSE next_no_comments(t.lx))

\* ------------------------------------------------------------------------
\* The parser over the scanner: the token buffer
\*
\* The parser keeps the token it consumed last and one token of lookahead.
\* The field `current` is the token consumed last (`previous` of the crate
\* ry-parser, `current` / `current_token` of the crate ry_parser); the field
\* `next` is the lookahead (`current` of the crate ry-parser, `next` /
\* `next_token` of the crate ry_parser). A result is the parser after the
\* call, whether the call succeeded (Ok / Some) or failed (Err / None), and
\* the value or the error.
\* ------------------------------------------------------------------------

\* The token consumed last, before any token is consumed.
NoToken == Token("None", Span(0, 0))

\* The parser over a scanner: the first token is scanned as the lookahead.
Parser_new(lx) ==
    Let(next_no_comments(lx), LAMBDA r :
    [lexer |-> r.lx, current |-> NoToken, next |-> r.tok, diagnostics |-> <<>>])

\* The methods that the others call from many places, advance and the
\* parsers of a type and of an expression, are called by their name through
\* Parser_call, which is defined after them.
RECURSIVE Parser_call(_, _, _)

\* advance / next_token of the parser: the lookahead is consumed and the
\* next token that is not a comment is scanned.
Parser_advance(p) == Parser_call("advance", p, <<>>)

\* The body of advance / next_token.
ParserState_next_token(p) ==
    Let(next_no_comments(p.lexer), LAMBDA r :
    [p EXCEPT !.lexer = r.lx, !.current = p.next, !.next = r.tok])

Ok(p, v) == [ok |-> TRUE, p |-> p, v |-> v]

\* Option: None and Some(v).
None == [some |-> FALSE]

Some(v) == [some |-> TRUE, v |-> v]

Err(p, e) == [ok |-> FALSE, p |-> p, v |-> e]

\* ParseDiagnostic::UnexpectedTokenError / ParserError::UnexpectedToken.
UnexpectedToken(got, expected, node) ==
    [kind |-> "UnexpectedToken", got |-> got, expected |-> expected, node |-> node]

\* None of a parser of the crate ry_parser, with the diagnostic it pushed.
Fail(p, diagnostic) ==
    Err([p EXCEPT !.diagnostics = Append(@, diagnostic)], diagnostic)

\* ParseState::span_from: from a start offset to the end of the token
\* consumed last.
Parser_span_from(p, start) == Span(start, p.current.span.end)

\* ParseState::resolve_span: the text of a span.
resolve_span(p, span) == Slice(p.lexer.source, span.start, span.end)

\* str::contains(',')
contains(text, c) == \E i \in 1..Len(text) : text[i] = c

\* ParseState::consume: the lookahead is consumed when it is the expected
\* token; a diagnostic is pushed when it is not.
consume(p, raw, node) ==
    IF p.next.raw = raw
    THEN Ok(Parser_advance(p), p.next)
    ELSE Fail(p, UnexpectedToken(p.next, raw, node))

\* IdentifierAst of the lookahead, an identifier: its symbol is the one the
\* scanner interned last.
IdentifierAst(p) == [symbol |-> p.lexer.scanned_identifier, span |-> p.next.span]

\* ParseState::consume_identifier
consume_identifier(p, node) ==
    IF p.next.raw = "Identifier"
    THEN Ok(Parser_advance(p), IdentifierAst(p))
    ELSE Fail(p, UnexpectedToken(p.next, "identifier", node))

\* ------------------------------------------------------------------------
\* Types (crates/ry_parser/src/type.rs)
\* ------------------------------------------------------------------------

\* TypeParser.parse(state)
TypeParser(p) == Parser_call("TypeParser", p, <<>>)

RECURSIVE TypePathParser(_)

\* self.parse_expression(precedence)
parse_expression(p, precedence) == Parser_call("parse_expression", p, precedence)


\* PathParser: identifiers separated by dots.
RECURSIVE PathParser_loop(_, _, _)
PathParser_loop(p, start, identifiers) ==
    IF p.next.raw = "."
    THEN Let(consume_identifier(Parser_advance(p), "path"), LAMBDA i :
         IF ~i.ok THEN i ELSE PathParser_loop(i.p, start, Append(identifiers, i.v)))
    ELSE Ok(p, [span |-> Parser_span_from(p, start), identifiers |-> identifiers])

PathParser(p) ==
    Let(consume_identifier(p, "path"), LAMBDA i :
    IF ~i.ok THEN i ELSE PathParser_loop(i.p, p.next.span.start, <<i.v>>))

\* The element closures handed to parse_list!, by the list they parse.
RECURSIVE parse_element(_, _)

\* parse_list! of the crate ry_parser: the elements up to the closing token,
\* separated by commas, with a comma allowed after the last one; the closing
\* token is left as the lookahead.
RECURSIVE parse_list_loop(_, _, _, _, _)
parse_list_loop(p, node, closing, f, result) ==
    Let(parse_element(p, f), LAMBDA e :
    IF ~e.ok THEN e
    ELSE IF e.p.next.raw = closing THEN Ok(e.p, Append(result, e.v))
    ELSE IF e.p.next.raw # ","
    THEN Fail(e.p, UnexpectedToken(e.p.next, <<",", closing>>, node))
    ELSE Let(Parser_advance(e.p), LAMBDA p1 :
         IF p1.next.raw = closing THEN Ok(p1, Append(result, e.v))
         ELSE parse_list_loop(p1, node, closing, f, Append(result, e.v))))

parse_list(p, node, closing, f) ==
    IF p.next.raw = closing THEN Ok(p, <<>>)
    ELSE parse_list_loop(p, node, closing, f, <<>>)

\* Type::span
Type_span(ty) == ty.span

RECURSIVE TypeBoundsParser_loop(_, _)
TypeBoundsParser_loop(p, bounds) ==
    IF p.next.raw = "+"
    THEN Let(TypePathParser(Parser_advance(p)), LAMBDA b :
         IF ~b.ok THEN b ELSE TypeBoundsParser_loop(b.p, Append(bounds, b.v)))
    ELSE Ok(p, bounds)

TypeBoundsParser(p) ==
    Let(TypePathParser(p), LAMBDA b :
    IF ~b.ok THEN b ELSE TypeBoundsParser_loop(b.p, <<b.v>>))

\* The entry of a generic-argument list: the block of lines 279-300.
GenericArgument(p) ==
    Let(TypeParser(p), LAMBDA ty :
    IF ~ty.ok THEN ty
    ELSE IF ty.p.next.raw = "=" /\ ty.v.kind = "Path"
    THEN IF /\ Len(ty.v.segments) = 1
            /\ ty.v.segments[1].generic_arguments = None
            /\ Len(ty.v.segments[1].path.identifiers) = 1
         THEN Let(TypeParser(Parser_advance(ty.p)), LAMBDA value :
              IF ~value.ok THEN value
              ELSE Ok(value.p, [kind |-> "AssociatedType",
                                name |-> ty.v.segments[1].path.identifiers[1],
                                value |-> value.v]))
         ELSE Err(ty.p, None)
    ELSE Ok(ty.p, [kind |-> "Type", ty |-> ty.v]))

\* GenericArgumentsParser::parse
GenericArgumentsParser(p) ==
    Let(parse_list(Parser_advance(p), "generic arguments", "]", "generic argument"), LAMBDA result :
    IF ~result.ok THEN result ELSE Ok(Parser_advance(result.p), result.v))

\* GenericArgumentsParser::optionally_parse: Some(self.parse(state)), a
\* result also when the list did not parse.
GenericArgumentsParser_optionally_parse(p) ==
    IF p.next.raw # "[" THEN Ok(p, None)
    ELSE Let(GenericArgumentsParser(p), LAMBDA g :
         Ok(g.p, IF g.ok THEN Some(g.v) ELSE None))

TypePathSegmentParser(p) ==
    Let(PathParser(p), LAMBDA path :
    IF ~path.ok THEN path
    ELSE Let(GenericArgumentsParser_optionally_parse(path.p), LAMBDA generic_arguments :
         IF ~generic_arguments.ok THEN generic_arguments
         ELSE Ok(generic_arguments.p,
                 [span |-> Parser_span_from(generic_arguments.p, path.v.span.start),
                  path |-> path.v,
                  generic_arguments |-> generic_arguments.v])))

\* segments separated by dots: the loops of TypePathParser (lines 233-237)
\* and of TypeWithQualifiedPathParser (lines 91-95).
RECURSIVE TypePathSegments(_, _)
TypePathSegments(p, segments) ==
    IF p.next.raw = "."
    THEN Let(TypePathSegmentParser(Parser_advance(p)), LAMBDA s :
         IF ~s.ok THEN s ELSE TypePathSegments(s.p, Append(segments, s.v)))
    ELSE Ok(p, segments)

TypePathParser(p) ==
    LET start == p.next.span.start IN
    Let(TypePathSegmentParser(p), LAMBDA first :
        IF ~first.ok THEN first
        ELSE Let(TypePathSegments(first.p, <<first.v>>), LAMBDA segments :
             IF ~segments.ok THEN segments
             ELSE Ok(segments.p, [kind |-> "Path",
                                  span |-> Parser_span_from(segments.p, start),
                                  segments |-> segments.v])))

TypeWithQualifiedPathParser(p) ==
    LET start == p.next.span.start IN
    Let(TypeParser(Parser_advance(p)), LAMBDA left :
        IF ~left.ok THEN left ELSE
        Let(consume(left.p, "as", "type with qualified path"), LAMBDA as :
        IF ~as.ok THEN as ELSE
        Let(TypePathParser(as.p), LAMBDA right :
        IF ~right.ok THEN right ELSE
        Let(consume(right.p, "]", "type with qualified path"), LAMBDA close :
        IF ~close.ok THEN close ELSE
        Let(consume(close.p, ".", "type with qualified path"), LAMBDA dot :
        IF ~dot.ok THEN dot ELSE
        Let(TypePathSegmentParser(dot.p), LAMBDA first :
        IF ~first.ok THEN first ELSE
        Let(TypePathSegments(first.p, <<first.v>>), LAMBDA segments :
        IF ~segments.ok THEN segments
        ELSE Ok(segments.p, [kind |-> "WithQualifiedPath",
                             span |-> Parser_span_from(segments.p, start),
                             left |-> left.v,
                             right |-> right.v,
                             segments |-> segments.v]))))))))

TraitObjectTypeParser(p) ==
    LET start == p.next.span.start IN
    Let(TypeBoundsParser(Parser_advance(p)), LAMBDA bounds :
        IF ~bounds.ok THEN bounds
        ELSE Ok(bounds.p, [kind |-> "TraitObject",
                           bounds |-> bounds.v,
                           span |-> Parser_span_from(bounds.p, start)]))

\* The arm (Some(element), None) of lines 151-166.
one_element_type(p, span, element) ==
    IF contains(resolve_span(p, Parser_span_from(p, Type_span(element).end)), ",")
    THEN [kind |-> "Tuple", span |-> span, element_types |-> <<element>>]
    ELSE [kind |-> "Parenthesized", span |-> span, inner |-> element]

ParenthesizedTupleOrFunctionTypeParser(p) ==
    LET start == p.next.span.start IN
    Let(parse_list(Parser_advance(p), "parenthesized or tuple type", ")", "type"), LAMBDA element_types :
        IF ~element_types.ok THEN element_types ELSE
        Let(Parser_advance(element_types.p), LAMBDA p1 :
        IF p1.next.raw = ":"
        THEN Let(TypeParser(Parser_advance(p1)), LAMBDA return_type :
             IF ~return_type.ok THEN return_type
             ELSE Ok(return_type.p, [kind |-> "Function",
                                     span |-> Parser_span_from(return_type.p, start),
                                     parameter_types |-> element_types.v,
                                     return_type |-> return_type.v]))
        ELSE Let(Parser_span_from(p1, start), LAMBDA span :
             IF Len(element_types.v) = 1
             THEN Ok(p1, one_element_type(p1, span, element_types.v[1]))
             ELSE Ok(p1, [kind |-> "Tuple", span |-> span, element_types |-> element_types.v]))))

TypeParser_parse(p) ==
    IF p.next.raw = "(" THEN ParenthesizedTupleOrFunctionTypeParser(p)
    ELSE IF p.next.raw = "Identifier" THEN TypePathParser(p)
    ELSE IF p.next.raw = "dyn" THEN TraitObjectTypeParser(p)
    ELSE IF p.next.raw = "[" THEN TypeWithQualifiedPathParser(p)
    ELSE Fail(p, UnexpectedToken(p.next, <<"identifier", "[", "#", "(">>, "type"))

\* ------------------------------------------------------------------------
\* Expressions (crates/ry-parser/src/expression.rs)
\* ------------------------------------------------------------------------

\* ry_ast::precedence::Precedence, as i8.
Precedence(name) ==
    CASE name = "Lowest" -> 1
      [] name = "Assign" -> 2
      [] name = "OrOr" -> 3
      [] name = "AndAnd" -> 4
      [] name = "Or" -> 5
      [] name = "And" -> 6
      [] name = "Eq" -> 7
      [] name = "LessOrGreater" -> 8
      [] name = "LeftRightShift" -> 9
      [] name = "Sum" -> 10
      [] name = "Product" -> 11
      [] name = "Power" -> 12
      [] name = "PrefixOrPostfix" -> 13
      [] name = "As" -> 14
      [] name = "Call" -> 15
      [] name = "Index" -> 16
      [] name = "Property" -> 17

\* RawToken::to_precedence
to_precedence(raw) ==
    CASE raw \in {"=", "+=", "-=", "*=", "/=", "|=", "&=", "%="} -> Precedence("Assign")
      [] raw = "||" -> Precedence("OrOr")
      [] raw = "&&" -> Precedence("AndAnd")
      [] raw = "|" -> Precedence("Or")
      [] raw = "&" -> Precedence("And")
      [] raw \in {"==", "!="} -> Precedence("Eq")
      [] raw \in {"<", "<=", ">", ">="} -> Precedence("LessOrGreater")
      [] raw \in {"<<", ">>"} -> Precedence("LeftRightShift")
      [] raw \in {"+", "-"} -> Precedence("Sum")
      [] raw \in {"*", "/", "%"} -> Precedence("Product")
      [] raw = "**" -> Precedence("Power")
      [] raw \in {"!", "?", "++", "--"} -> Precedence("PrefixOrPostfix")
      [] raw = "as" -> Precedence("As")
      [] raw = "(" -> Precedence("Call")
      [] raw = "[" -> Precedence("Index")
      [] raw = "." -> Precedence("Property")
      [] OTHER -> Precedence("Lowest")

\* binop_pattern!: the tokens of the binary operators.
binop_pattern(raw) ==
    raw \in {"+=", "+", "-=", "-", "*=", "**", "*", "/=", "/", "!=", "!", ">>", "<<",
             "<=", "<", ">=", ">", "==", "=", "|", "&", "||", "&&", "|=", "&=", "%",
             "%="}

\* postfixop_pattern!: the tokens of the postfix operators.
postfixop_pattern(raw) == raw \in {"?", "++", "--"}

\* The tokens of the prefix operators (the arm of line 170).
prefixop_pattern(raw) == raw \in {"!", "~", "++", "--", "-", "+"}

\* check_token!: an error when the lookahead is not the expected token.
check_token(p, raw, node) ==
    IF p.next.raw = raw THEN Ok(p, p.next)
    ELSE Err(p, UnexpectedToken(p.next, raw, node))

\* check_token0!: the same, with the text that names what is expected.
check_token0(p, expected, raw, node) ==
    IF p.next.raw = raw THEN Ok(p, p.next)
    ELSE Err(p, UnexpectedToken(p.next, expected, node))

\* The error of parse_prefix names no node: None, where the other errors
\* have Some(node).
NoNode == "None"

\* Parser::check_scanning_error: an error token of the scanner as lookahead
\* is an error of the parser.
check_scanning_error(p) ==
    IF IsErrorToken(p.next) THEN Err(p, [kind |-> "ScanningError", got |-> p.next])
    ELSE Ok(p, p.next)

\* parse_list! of the crate ry-parser: as parse_list! of ry_parser, with an
\* error returned in place of the diagnostic; it consumes the closing token.
\* The element closure of every list of expression.rs is parse_expression
\* from the lowest precedence.
RECURSIVE Parser_parse_list_loop(_, _, _, _, _)
Parser_parse_list_loop(p, node, closing, f, result) ==
    Let(parse_expression(p, Precedence("Lowest")), LAMBDA e :
    IF ~e.ok THEN e
    ELSE IF e.p.next.raw = closing THEN Ok(e.p, Append(result, e.v))
    ELSE IF e.p.next.raw # ","
    THEN Err(e.p, UnexpectedToken(e.p.next, <<",", closing>>, node))
    ELSE Let(Parser_advance(e.p), LAMBDA p1 :
         IF p1.next.raw = closing THEN Ok(p1, Append(result, e.v))
         ELSE Parser_parse_list_loop(p1, node, closing, f, Append(result, e.v))))

Parser_parse_list(p, node, closing, f) ==
    Let(IF p.next.raw = closing THEN Ok(p, <<>>)
             ELSE Parser_parse_list_loop(p, node, closing, f, <<>>), LAMBDA l :
    IF ~l.ok THEN l ELSE Ok(Parser_advance(l.p), l.v))

\* Parser::parse_type: a type, an error when there is none.
parse_type(p) == TypeParser(p)

\* Parser::parse_type_generic_part: the types between `<` and `>`.
parse_type_generic_part(p) ==
    Let(parse_list(Parser_advance(p), "generics", ">", "type"), LAMBDA l :
    IF ~l.ok THEN l ELSE Ok(Parser_advance(l.p), l.v))

\* Parser::parse_name: the name of the identifier that is the lookahead.
parse_name(p) ==
    Ok(Parser_advance(p), [value |-> p.lexer.scanned_identifier, span |-> p.next.span])

\* Parser::parse_statements_block: expressions between braces, each
\* followed by a semicolon or not.
RECURSIVE parse_statements(_, _)
parse_statements(p, statements) ==
    IF p.next.raw \in {"}", "EndOfFile"} THEN Ok(p, statements)
    ELSE Let(parse_expression(p, Precedence("Lowest")), LAMBDA e :
         IF ~e.ok THEN e
         ELSE LET semicolon == e.p.next.raw = ";" IN
              Let(IF semicolon THEN Parser_advance(e.p) ELSE e.p, LAMBDA p1 :
                  parse_statements(p1, Append(statements,
                      [expression |-> e.v, has_semicolon |-> semicolon]))))

parse_statements_block(p) ==
    Let(check_token(p, "{", "statements block"), LAMBDA open :
    IF ~open.ok THEN open ELSE
    Let(parse_statements(Parser_advance(p), <<>>), LAMBDA s :
    IF ~s.ok THEN s ELSE
    Let(check_token(s.p, "}", "statements block"), LAMBDA close :
    IF ~close.ok THEN close ELSE Ok(Parser_advance(s.p), s.v))))

\* The value of a literal token: what the scanner decoded for it.
literal_value(p) ==
    CASE p.next.raw = "StringLiteral" -> p.lexer.scanned_string
      [] p.next.raw = "CharLiteral" -> p.lexer.scanned_char
      [] p.next.raw \in {"true", "false"} -> p.next.raw = "true"
      [] OTHER -> resolve_span(p, p.next.span)

\* The name of the literal expression of a literal token.
literal_kind(raw) ==
    CASE raw = "IntegerLiteral" -> "Int"
      [] raw = "FloatLiteral" -> "Float"
      [] raw = "ImaginaryNumberLiteral" -> "Imag"
      [] raw = "StringLiteral" -> "String"
      [] raw = "CharLiteral" -> "Char"
      [] raw \in {"true", "false"} -> "Bool"
      [] OTHER -> "None"

\* The span of a literal taken from the token consumed before it.
literal_expression_previous_span(p) ==
    Ok(Parser_advance(p),
       [kind |-> literal_kind(p.next.raw), value |-> literal_value(p), span |-> p.current.span])

\* The arms of parse_prefix for the literals (lines 122-169).
literal_expression(p) ==
    Ok(Parser_advance(p),
       [kind |-> literal_kind(p.next.raw), value |-> literal_value(p), span |-> p.next.span])

\* The right operand parsed from the lowest precedence.
binary_expression_from_lowest(p, left) ==
    LET start == left.span.start
        op == p.next IN
    Let(parse_expression(Parser_advance(p), Precedence("Lowest")), LAMBDA right :
        IF ~right.ok THEN right
        ELSE Ok(right.p, [kind |-> "Binary", left |-> left, op |-> op, right |-> right.v,
                          span |-> Span(start, right.p.next.span.end)]))

\* The right operand parsed from one below the precedence of the operator.
binary_expression_from_one_below(p, left) ==
    LET start == left.span.start
        op == p.next IN
    Let(parse_expression(Parser_advance(p), to_precedence(op.raw) - 1), LAMBDA right :
        IF ~right.ok THEN right
        ELSE Ok(right.p, [kind |-> "Binary", left |-> left, op |-> op, right |-> right.v,
                          span |-> Span(start, right.p.next.span.end)]))

\* The arm binop_pattern!() of parse_expression (lines 11-23).
binary_expression(p, left) ==
    LET start == left.span.start
        op == p.next IN
    Let(to_precedence(p.next.raw), LAMBDA precedence :
    Let(parse_expression(Parser_advance(p), precedence), LAMBDA right :
        IF ~right.ok THEN right
        ELSE Ok(right.p, [kind |-> "Binary", left |-> left, op |-> op, right |-> right.v,
                          span |-> Span(start, right.p.next.span.end)])))

\* The arm OpenParent (lines 24-36).
call_expression(p, left) ==
    LET start == left.span.start IN
    Let(Parser_parse_list(Parser_advance(p), "call arguments list", ")", "expression"), LAMBDA arguments :
        IF ~arguments.ok THEN arguments
        ELSE Ok(arguments.p, [kind |-> "Call", generics |-> <<>>, left |-> left,
                              arguments |-> arguments.v,
                              span |-> Span(start, arguments.p.current.span.end)]))

\* The arm Dot (lines 37-78).
property_expression(p, left) ==
    Let(Parser_advance(p), LAMBDA p1 :
    LET start == left.span.start IN
        IF p1.next.raw = "<"
        THEN Let(parse_type_generic_part(p1), LAMBDA generics :
             IF ~generics.ok THEN generics ELSE
             Let(check_token(generics.p, "(", "call"), LAMBDA open :
             IF ~open.ok THEN open ELSE
             Let(Parser_parse_list(Parser_advance(generics.p),
                                                "generics for call", ")", "expression"), LAMBDA arguments :
             IF ~arguments.ok THEN arguments
             ELSE Ok(arguments.p, [kind |-> "Call", generics |-> generics.v, left |-> left,
                                   arguments |-> arguments.v,
                                   span |-> Span(start, arguments.p.current.span.end)]))))
        ELSE Let(check_token0(p1, "identifier for property name", "Identifier", "property"),
                 LAMBDA id :
             IF ~id.ok THEN id
             ELSE Ok(Parser_advance(p1), [kind |-> "Property", left |-> left,
                                          name |-> IdentifierAst(p1),
                                          span |-> Span(start, p1.next.span.end)])))

\* The arm OpenBracket (lines 79-93).
index_expression(p, left) ==
    LET start == left.span.start IN
    Let(parse_expression(Parser_advance(p), Precedence("Lowest")), LAMBDA inner_expr :
        IF ~inner_expr.ok THEN inner_expr ELSE
        Let(check_token(inner_expr.p, "]", "index"), LAMBDA close :
        IF ~close.ok THEN close
        ELSE Ok(Parser_advance(inner_expr.p),
                [kind |-> "Index", left |-> left, index |-> inner_expr.v,
                 span |-> Span(start, inner_expr.p.next.span.end)])))

\* The arm postfixop_pattern!() (lines 94-101).
postfix_expression(p, left) ==
    Ok(Parser_advance(p), [kind |-> "PrefixOrPostfix", op |-> p.next, operand |-> left,
                           span |-> Span(left.span.start, p.next.span.end)])

\* The arm As (lines 102-110).
as_expression(p, left) ==
    Let(parse_type(Parser_advance(p)), LAMBDA type :
    IF ~type.ok THEN type
    ELSE Ok(type.p, [kind |-> "As", left |-> left, type |-> type.v,
                     span |-> Span(left.span.start, type.p.current.span.end)]))

\* The loop of parse_expression (lines 9-113).
RECURSIVE parse_expression_loop(_, _, _)
parse_expression_loop(p, precedence, left) ==
    IF ~(precedence < to_precedence(p.next.raw)) THEN Ok(p, left)
    ELSE LET raw == p.next.raw IN
         Let(IF binop_pattern(raw) THEN binary_expression(p, left)
                  ELSE IF raw = "(" THEN call_expression(p, left)
                  ELSE IF raw = "." THEN property_expression(p, left)
                  ELSE IF raw = "[" THEN index_expression(p, left)
                  ELSE IF postfixop_pattern(raw) THEN postfix_expression(p, left)
                  ELSE IF raw = "as" THEN as_expression(p, left)
                  ELSE Ok(p, [kind |-> "break"]), LAMBDA r :
             IF ~r.ok THEN r
             ELSE IF r.v.kind = "break" THEN Ok(p, left)
             ELSE parse_expression_loop(r.p, precedence, r.v))

\* The arm of the prefix operators (lines 170-179).
prefix_expression(p) ==
    LET left == p.next IN
    Let(parse_expression(Parser_advance(p), Precedence("PrefixOrPostfix")), LAMBDA expr :
        IF ~expr.ok THEN expr
        ELSE Ok(expr.p, [kind |-> "PrefixOrPostfix", op |-> left, operand |-> expr.v,
                         span |-> Span(left.span.start, expr.v.span.end)]))

\* The arm OpenParent of parse_prefix (lines 180-190).
parenthesized_expression(p) ==
    Let(parse_expression(Parser_advance(p), Precedence("Lowest")), LAMBDA expr :
    IF ~expr.ok THEN expr ELSE
    Let(check_token(expr.p, ")", "parenthesized expression"), LAMBDA close :
    IF ~close.ok THEN close ELSE Ok(Parser_advance(expr.p), expr.v)))

\* The list without its last element.
list_expression_short(p) ==
    LET start == p.next.span.start IN
    Let(Parser_parse_list(Parser_advance(p), "list literal", "]", "expression"), LAMBDA list :
        IF ~list.ok THEN list
        ELSE Ok(list.p, [kind |-> "List",
                         list |-> SubSeq(list.v, 1, Len(list.v) - 1),
                         span |-> Span(start, list.p.current.span.end)]))

\* The arm OpenBracket of parse_prefix (lines 191-202).
list_expression(p) ==
    LET start == p.next.span.start IN
    Let(Parser_parse_list(Parser_advance(p), "list literal", "]", "expression"), LAMBDA list :
        IF ~list.ok THEN list
        ELSE Ok(list.p, [kind |-> "List", list |-> list.v,
                         span |-> Span(start, list.p.current.span.end)]))

\* A loop over `else` that goes on after an else block: the block met last
\* is the else block.
RECURSIVE else_chain_without_break(_, _)
else_chain_without_break(p, else_if_chains) ==
    IF p.next.raw # "else" THEN Ok(p, [chains |-> else_if_chains, else_block |-> None])
    ELSE Let(Parser_advance(p), LAMBDA p1 :
         IF p1.next.raw # "if"
         THEN Let(parse_statements_block(p1), LAMBDA block :
              IF ~block.ok THEN block ELSE
              Let(else_chain_without_break(block.p, else_if_chains), LAMBDA rest :
              IF ~rest.ok THEN rest
              ELSE Ok(rest.p, [chains |-> rest.v.chains,
                               else_block |-> IF rest.v.else_block.some
                                              THEN rest.v.else_block
                                              ELSE Some(block.v)])))
         ELSE Let(parse_expression(Parser_advance(p1), Precedence("Lowest")), LAMBDA condition :
              IF ~condition.ok THEN condition ELSE
              Let(parse_statements_block(condition.p), LAMBDA block :
              IF ~block.ok THEN block
              ELSE else_chain_without_break(block.p, Append(else_if_chains,
                       [condition |-> condition.v, block |-> block.v])))))

\* The loop over `else` of the arm If (lines 218-234).
RECURSIVE else_chain(_, _)
else_chain(p, else_if_chains) ==
    IF p.next.raw # "else" THEN Ok(p, [chains |-> else_if_chains, else_block |-> None])
    ELSE Let(Parser_advance(p), LAMBDA p1 :
         IF p1.next.raw # "if"
         THEN Let(parse_statements_block(p1), LAMBDA block :
              IF ~block.ok THEN block
              ELSE Ok(block.p, [chains |-> else_if_chains, else_block |-> Some(block.v)]))
         ELSE Let(parse_expression(Parser_advance(p1), Precedence("Lowest")), LAMBDA condition :
              IF ~condition.ok THEN condition ELSE
              Let(parse_statements_block(condition.p), LAMBDA block :
              IF ~block.ok THEN block
              ELSE else_chain(block.p, Append(else_if_chains,
                       [condition |-> condition.v, block |-> block.v])))))

\* The arm If of parse_prefix (lines 208-244).
if_expression(p) ==
    LET start == p.next.span.start IN
    Let(parse_expression(Parser_advance(p), Precedence("Lowest")), LAMBDA if_condition :
        IF ~if_condition.ok THEN if_condition ELSE
        Let(parse_statements_block(if_condition.p), LAMBDA if_statements_block :
        IF ~if_statements_block.ok THEN if_statements_block ELSE
        Let(else_chain(if_statements_block.p, <<>>), LAMBDA rest :
        IF ~rest.ok THEN rest
        ELSE Ok(rest.p, [kind |-> "If",
                         if_condition |-> if_condition.v,
                         if_statements_block |-> if_statements_block.v,
                         else_if_chains |-> rest.v.chains,
                         else_statements_block |-> rest.v.else_block,
                         span |-> Span(start, rest.p.next.span.end)]))))

\* The arm While of parse_prefix (lines 245-256).
while_expression(p) ==
    LET start == p.next.span.start IN
    Let(parse_expression(Parser_advance(p), Precedence("Lowest")), LAMBDA condition :
        IF ~condition.ok THEN condition ELSE
        Let(parse_statements_block(condition.p), LAMBDA block :
        IF ~block.ok THEN block
        ELSE Ok(block.p, [kind |-> "While", condition |-> condition.v, block |-> block.v,
                          span |-> Span(start, block.p.next.span.end)])))

parse_prefix(p) ==
    LET raw == p.next.raw IN
    IF ~check_scanning_error(p).ok THEN check_scanning_error(p)
    ELSE IF literal_kind(raw) # "None" THEN literal_expression(p)
    ELSE IF prefixop_pattern(raw) THEN prefix_expression(p)
    ELSE IF raw = "(" THEN parenthesized_expression(p)
    ELSE IF raw = "[" THEN list_expression(p)
    ELSE IF raw = "Identifier"
    THEN Let(parse_name(p), LAMBDA n :
         Ok(n.p, [kind |-> "StaticName", value |-> n.v.value, span |-> n.v.span]))
    ELSE IF raw = "if" THEN if_expression(p)
    ELSE IF raw = "while" THEN while_expression(p)
    ELSE Err(p, UnexpectedToken(p.next, "expression", NoNode))

Parser_parse_expression(p, precedence) ==
    Let(parse_prefix(p), LAMBDA left :
    IF ~left.ok THEN left ELSE parse_expression_loop(left.p, precedence, left.v))

\* ------------------------------------------------------------------------
\* Items (crates/ry_parser/src/item/mod.rs, crates/ry_parser/src/
\* function_decl.rs, the generic parameters and the where clause of
\* crates/ry_parser/src/type.rs)
\* ------------------------------------------------------------------------

\* ParserState::consume_docstring: the local doc comments that come next.
RECURSIVE consume_docstring_loop(_, _)
consume_docstring_loop(p, docstring) ==
    IF p.next.raw = "LocalDocComment"
    THEN consume_docstring_loop(Parser_advance(p), Append(docstring, p.next.span))
    ELSE Ok(p, docstring)

consume_docstring(p) == consume_docstring_loop(p, <<>>)

\* The element closures handed to parse_list! by the parsers of the items.
RECURSIVE parse_item_element(_, _)

\* parse_list! of the parsers of the items, with one closing token or with
\* two, `(a) or (b)`: as parse_list!, the list ends before the closing token.
RECURSIVE parse_list_or_loop(_, _, _, _, _)
parse_list_or_loop(p, node, closing, f, result) ==
    Let(parse_item_element(p, f), LAMBDA e :
    IF ~e.ok THEN e
    ELSE IF e.p.next.raw \in closing THEN Ok(e.p, Append(result, e.v))
    ELSE IF e.p.next.raw # ","
    THEN Fail(e.p, UnexpectedToken(e.p.next, <<",", closing>>, node))
    ELSE Let(Parser_advance(e.p), LAMBDA p1 :
         IF p1.next.raw \in closing THEN Ok(p1, Append(result, e.v))
         ELSE parse_list_or_loop(p1, node, closing, f, Append(result, e.v))))

parse_list_or(p, node, closing, f) ==
    IF p.next.raw \in closing THEN Ok(p, <<>>)
    ELSE parse_list_or_loop(p, node, closing, f, <<>>)

\* The element of the list of GenericParametersParser (lines 199-215).
GenericParameter(p) ==
    Let(consume_identifier(p, "generic parameter name"), LAMBDA name :
    IF ~name.ok THEN name ELSE
    LET has_bounds == name.p.next.raw = ":" IN
    Let(IF has_bounds THEN TypeBoundsParser(Parser_advance(name.p))
                  ELSE Ok(name.p, <<>>), LAMBDA bounds :
        IF ~bounds.ok THEN bounds ELSE
    LET has_default == bounds.p.next.raw = "=" IN
    Let(IF has_default THEN TypeParser(Parser_advance(bounds.p))
                         ELSE Ok(bounds.p, None), LAMBDA default_value :
        IF ~default_value.ok THEN default_value
        ELSE Ok(default_value.p,
                [name |-> name.v,
                 bounds |-> IF has_bounds THEN Some(bounds.v) ELSE None,
                 default_value |-> IF has_default THEN Some(default_value.v) ELSE None]))))

\* GenericParametersParser::optionally_parse
GenericParametersParser_optionally_parse(p) ==
    IF p.next.raw # "[" THEN Ok(p, None)
    ELSE Let(parse_list_or(Parser_advance(p), "generic parameters", {"]"},
                                     "generic parameter"), LAMBDA result :
         IF ~result.ok THEN result
         ELSE Ok(Parser_advance(result.p), Some(result.v)))

\* The element of the list of WhereClauseParser (lines 323-347).
WhereClauseItem(p) ==
    Let(TypeParser(p), LAMBDA left :
    IF ~left.ok THEN left
    ELSE IF left.p.next.raw = ":"
    THEN Let(TypeBoundsParser(Parser_advance(left.p)), LAMBDA bounds :
         IF ~bounds.ok THEN bounds
         ELSE Ok(bounds.p, [kind |-> "Satisfies", ty |-> left.v, bounds |-> bounds.v]))
    ELSE IF left.p.next.raw = "="
    THEN Let(TypeParser(Parser_advance(left.p)), LAMBDA right :
         IF ~right.ok THEN right
         ELSE Ok(right.p, [kind |-> "Eq", left |-> left.v, right |-> right.v]))
    ELSE Fail(left.p, UnexpectedToken(left.p.next, <<"=", ":">>, "where clause")))

\* WhereClauseParser::optionally_parse
WhereClauseParser_optionally_parse(p) ==
    IF p.next.raw # "where" THEN Ok(p, None)
    ELSE Let(parse_list_or(Parser_advance(p), "where clause", {"{", ";"},
                                "where clause item"), LAMBDA l :
         IF ~l.ok THEN l ELSE Ok(l.p, Some(l.v)))

\* Parser::parse_generics and Parser::parse_where_clause of function_decl.rs:
\* the generic parameters and the where clause, when there are any.
parse_generics(p) == GenericParametersParser_optionally_parse(p)

parse_where_clause(p) == WhereClauseParser_optionally_parse(p)

\* consume_ident!: the identifier that is the lookahead is consumed; an
\* error when the lookahead is no identifier.
consume_ident(p, node) ==
    IF p.next.raw = "Identifier"
    THEN Ok(Parser_advance(p), IdentifierAst(p))
    ELSE Err(p, UnexpectedToken(p.next, "identifier", node))

\* consume!: the expected token is consumed; an error when the lookahead is
\* another token.
consume_token(p, raw, node) ==
    IF p.next.raw = raw THEN Ok(Parser_advance(p), p.next)
    ELSE Err(p, UnexpectedToken(p.next, raw, node))

\* Parser::parse_function_argument
parse_function_argument(p) ==
    Let(consume_ident(p, "function argument name"), LAMBDA name :
    IF ~name.ok THEN name ELSE
    Let(consume_token(name.p, ":", "function argument name"), LAMBDA colon :
    IF ~colon.ok THEN colon ELSE
    Let(parse_type(colon.p), LAMBDA type :
    IF ~type.ok THEN type ELSE
    LET has_default == type.p.next.raw = "=" IN
    Let(IF has_default
                         THEN parse_expression(Parser_advance(type.p), Precedence("Lowest"))
                         ELSE Ok(type.p, None), LAMBDA default_value :
        IF ~default_value.ok THEN default_value
        ELSE Ok(default_value.p,
                [name |-> name.v, type |-> type.v,
                 default_value |-> IF has_default THEN Some(default_value.v) ELSE None])))))

parse_item_element(p, f) ==
    CASE f = "generic parameter" -> GenericParameter(p)
      [] f = "where clause item" -> WhereClauseItem(p)
      [] f = "function argument" -> parse_function_argument(p)
      [] f = "expression" -> parse_expression(p, Precedence("Lowest"))

\* Parser::parse_function_definition
parse_function_definition(p, visibility) ==
    Let(consume_ident(Parser_advance(p), "function name in function declaration"), LAMBDA name :
    IF ~name.ok THEN name ELSE
    Let(parse_generics(name.p), LAMBDA generics :
    IF ~generics.ok THEN generics ELSE
    Let(consume_token(generics.p, "(", "function declaration"), LAMBDA open :
    IF ~open.ok THEN open ELSE
    Let(parse_list_or(open.p, "function arguments", {")"}, "function argument"), LAMBDA arguments :
    IF ~arguments.ok THEN arguments ELSE
    Let(Parser_advance(arguments.p), LAMBDA p1 :
    LET has_return_type == p1.next.raw = ":" IN
    Let(IF has_return_type THEN parse_type(Parser_advance(p1)) ELSE Ok(p1, None), LAMBDA return_type :
        IF ~return_type.ok THEN return_type ELSE
    Let(parse_where_clause(return_type.p), LAMBDA where :
    IF ~where.ok THEN where
    ELSE Ok(where.p,
            [visibility |-> visibility, name |-> name.v, generics |-> generics.v,
             arguments |-> arguments.v,
             return_type |-> IF has_return_type THEN Some(return_type.v) ELSE None,
             where |-> where.v]))))))))

\* parse_function leaving the `;` of a definition where it is.
parse_function_keeping_semicolon(p, visibility) ==
    Let(parse_function_definition(p, visibility), LAMBDA definition :
    IF ~definition.ok THEN definition
    ELSE IF definition.p.next.raw = ";"
    THEN Ok(definition.p,
            [kind |-> "FunctionDefinition", definition |-> definition.v, body |-> None])
    ELSE Let(parse_statements_block(definition.p), LAMBDA body :
         IF ~body.ok THEN body
         ELSE Ok(body.p, [kind |-> "FunctionDeclaration", definition |-> definition.v,
                          body |-> Some(body.v)])))

\* Parser::parse_function: a definition closed by `;`, or a declaration with
\* its block.
parse_function(p, visibility) ==
    Let(parse_function_definition(p, visibility), LAMBDA definition :
    IF ~definition.ok THEN definition
    ELSE IF definition.p.next.raw = ";"
    THEN Ok(Parser_advance(definition.p),
            [kind |-> "FunctionDefinition", definition |-> definition.v, body |-> None])
    ELSE Let(parse_statements_block(definition.p), LAMBDA body :
         IF ~body.ok THEN body
         ELSE Ok(body.p, [kind |-> "FunctionDeclaration", definition |-> definition.v,
                          body |-> Some(body.v)])))

\* Parser::parse_function_item / FunctionItemParser
parse_function_item(p, visibility) ==
    Let(parse_function(p, visibility), LAMBDA function :
    IF ~function.ok THEN function
    ELSE Ok(function.p, [kind |-> "Function", function |-> function.v]))

\* ImportParser: `import`, a path and `;`.
ImportParser(p, visibility) ==
    Let(PathParser(Parser_advance(p)), LAMBDA path :
    IF ~path.ok THEN path ELSE
    Let(consume(path.p, ";", "import"), LAMBDA semicolon :
    IF ~semicolon.ok THEN semicolon
    ELSE Ok(semicolon.p, [kind |-> "Import", visibility |-> visibility, path |-> path.v])))

\* EnumDeclarationParser, StructDeclarationParser, TraitDeclarationParser and
\* ImplItemParser, for a declaration without members: the keyword, the name
\* (the type, for `impl`), the generic parameters, the where clause and an
\* empty pair of braces.
DeclarationParser(p, visibility, kind) ==
    Let(Parser_advance(p), LAMBDA p1 :
    Let(IF kind = "impl" THEN TypeParser(p1) ELSE consume_identifier(p1, kind), LAMBDA name :
        IF ~name.ok THEN name ELSE
    Let(GenericParametersParser_optionally_parse(name.p), LAMBDA generics :
    IF ~generics.ok THEN generics ELSE
    Let(WhereClauseParser_optionally_parse(generics.p), LAMBDA where :
    IF ~where.ok THEN where ELSE
    Let(consume(where.p, "{", kind), LAMBDA open :
    IF ~open.ok THEN open ELSE
    Let(consume(open.p, "}", kind), LAMBDA close :
    IF ~close.ok THEN close
    ELSE Ok(close.p, [kind |-> kind, visibility |-> visibility, name |-> name.v,
                      generics |-> generics.v, where |-> where.v])))))))

\* Visibility::private() and Visibility::public(span)
Visibility_private == None

Visibility_public(span) == Some(span)

\* ItemParser::parse_with
ItemParser(p) ==
    LET is_pub == p.next.raw = "pub" IN
    Let(IF is_pub THEN Visibility_public(p.next.span) ELSE Visibility_private, LAMBDA visibility :
    Let(IF is_pub THEN Parser_advance(p) ELSE p, LAMBDA p1 :
    LET raw == p1.next.raw IN
        CASE raw \in {"enum", "struct", "trait", "impl"} ->
                 DeclarationParser(p1, visibility, raw)
          [] raw = "import" -> ImportParser(p1, visibility)
          [] raw = "fun" -> parse_function_item(p1, visibility)
          [] OTHER ->
              Err(Parser_advance(p1),
                  UnexpectedToken(p1.next, <<"import", "fun", "trait", "enum", "struct">>,
                                  "item"))))

\* Item::with_docstring
with_docstring(item, docstring) == [item |-> item, docstring |-> docstring]

\* The loop of ItemsParser::parse_with (lines 37-41).
RECURSIVE ItemsParser_loop(_, _, _)
ItemsParser_loop(p, docstring, items) ==
    IF p.next.raw = "EndOfFile" THEN Ok(p, items)
    ELSE Let(ItemParser(p), LAMBDA item :
         IF ~item.ok THEN item
         ELSE Let(consume_docstring(item.p), LAMBDA d :
              IF ~d.ok THEN d
              ELSE ItemsParser_loop(d.p, d.v,
                       Append(items, with_docstring(item.v, docstring)))))

\* ItemsParser::parse_with
ItemsParser_parse_with(p, first_docstring) == ItemsParser_loop(p, first_docstring, <<>>)

\* ArrayLiteralExpressionParser::parse_with (crates/ry_parser/src/expression/
\* array.rs); ExpressionParser::default() is parse_expression from the lowest
\* precedence.
ArrayLiteralExpressionParser_parse_with(p) ==
    Let(Parser_advance(p), LAMBDA p1 :
    LET start == p1.next.span.start IN
    Let(parse_list_or(p1, "array literal", {"]"}, "expression"), LAMBDA literal :
        IF ~literal.ok THEN literal
        ELSE Let(Parser_advance(literal.p), LAMBDA p2 :
             Ok(p2, [kind |-> "ArrayLiteral", literal |-> literal.v,
                     span |-> Span(start, p2.current.span.end)]))))

parse_element(p, f) ==
    CASE f = "type" -> TypeParser(p)
      [] f = "generic argument" -> GenericArgument(p)

\* The call of a method of the parser by its name.
Parser_call(called, p, argument) ==
    CASE called = "advance" -> ParserState_next_token(p)
      [] called = "TypeParser" -> TypeParser_parse(p)
      [] called = "parse_expression" -> Parser_parse_expression(p, argument)
      [] called = "ItemsParser" -> ItemsParser_parse_with(p, argument)
      [] called = "ArrayLiteralExpressionParser" -> ArrayLiteralExpressionParser_parse_with(p)
      [] called = "parse_function" -> parse_function(p, argument)

\* ItemsParser { first_docstring }.parse_with(state)
ItemsParser(p, first_docstring) == Parser_call("ItemsParser", p, first_docstring)

\* ArrayLiteralExpressionParser.parse_with(state)
ArrayLiteralExpressionParser(p) == Parser_call("ArrayLiteralExpressionParser", p, <<>>)

\* parser.parse_function(visibility)
Parser_parse_function(p, visibility) == Parser_call("parse_function", p, visibility)

\* ------------------------------------------------------------------------
\* Scopes (ry_analyze::scope, exercised by crates/ry_analyze/tests/scope.rs)
\*
\* A chain of scopes is the sequence of the scopes from the outermost one:
\* the parent of a scope is the scope before it.
\* ------------------------------------------------------------------------

\* ry_filesystem::span::DUMMY_SPAN
DUMMY_SPAN == [start |-> 0, end |-> 0, file_id |-> 0]

\* Scope::new: a scope without bindings.
Scope_new == [entities |-> {}]

\* The first binding of a symbol is kept.
add_symbol_keep_first(scope, symbol, value) ==
    IF \E e \in scope.entities : e.symbol = symbol THEN scope
    ELSE [scope EXCEPT !.entities = @ \cup {[symbol |-> symbol, value |-> value]}]

\* Scope::add_symbol: the binding of the symbol in the scope is set.
add_symbol(scope, symbol, value) ==
    [scope EXCEPT !.entities = {e \in @ : e.symbol # symbol}
                               \cup {[symbol |-> symbol, value |-> value]}]

\* Scope::lookup on the scope at a depth of the chain: the binding of the
\* symbol in the scope, else what the lookup on its parent gives.
RECURSIVE Scope_lookup(_, _, _)
Scope_lookup(chain, depth, symbol) ==
    IF \E e \in chain[depth].entities : e.symbol = symbol
    THEN Some((CHOOSE e \in chain[depth].entities : e.symbol = symbol).value)
    ELSE IF depth = 1 THEN None
    ELSE Scope_lookup(chain, depth - 1, symbol)

\* --- the operators of expressions ----------------------------------------

\* enum RawBinaryOperator (lib.rs:817-845)
RawBinaryOperators ==
    {"PlusEq", "Plus", "MinusEq", "Minus", "StarStar", "StarEq", "Star", "SlashEq",
     "Slash", "NotEq", "Bang", "RightShift", "LeftShift", "LessEq", "Less",
     "GreaterEq", "Greater", "EqEq", "Eq", "Or", "And", "OrOr", "AndAnd", "OrEq",
     "AndEq", "Percent", "PercentEq"}

\* impl From<RawToken> for RawBinaryOperator (lib.rs:847-880); every other token
\* reaches the arm unreachable!().
RawBinaryOperator_from(token) ==
    CASE token = "+=" -> "PlusEq"
      [] token = "+" -> "Plus"
      [] token = "-=" -> "MinusEq"
      [] token = "-" -> "Minus"
      [] token = "*=" -> "StarEq"
      [] token = "**" -> "StarStar"
      [] token = "*" -> "Star"
      [] token = "/=" -> "SlashEq"
      [] token = "/" -> "Slash"
      [] token = "!=" -> "NotEq"
      [] token = "!" -> "Bang"
      [] token = ">>" -> "RightShift"
      [] token = "<<" -> "LeftShift"
      [] token = "<=" -> "LessEq"
      [] token = "<" -> "Less"
      [] token = ">=" -> "GreaterEq"
      [] token = ">" -> "Greater"
      [] token = "==" -> "EqEq"
      [] token = "=" -> "Eq"
      [] token = "|" -> "Or"
      [] token = "&" -> "And"
      [] token = "||" -> "OrOr"
      [] token = "&&" -> "AndAnd"
      [] token = "|=" -> "OrEq"
      [] token = "&=" -> "AndEq"
      [] token = "%" -> "Percent"
      [] token = "%=" -> "PercentEq"
      [] OTHER -> "unreachable!()"

\* impl From<RawBinaryOperator> for RawToken (lib.rs:882-914)
RawToken_from_RawBinaryOperator(operator) ==
    CASE operator = "PlusEq" -> "+="
      [] operator = "Plus" -> "+"
      [] operator = "MinusEq" -> "-="
      [] operator = "Minus" -> "-"
      [] operator = "StarEq" -> "*="
      [] operator = "StarStar" -> "**"
      [] operator = "Star" -> "*"
      [] operator = "SlashEq" -> "/="
      [] operator = "Slash" -> "/"
      [] operator = "NotEq" -> "!="
      [] operator = "Bang" -> "!"
      [] operator = "RightShift" -> ">>"
      [] operator = "LeftShift" -> "<<"
      [] operator = "LessEq" -> "<="
      [] operator = "Less" -> "<"
      [] operator = "GreaterEq" -> ">="
      [] operator = "Greater" -> ">"
      [] operator = "EqEq" -> "=="
      [] operator = "Eq" -> "="
      [] operator = "Or" -> "|"
      [] operator = "And" -> "&"
      [] operator = "OrOr" -> "||"
      [] operator = "AndAnd" -> "&&"
      [] operator = "OrEq" -> "|="
      [] operator = "AndEq" -> "&="
      [] operator = "Percent" -> "%"
      [] operator = "PercentEq" -> "%="

\* enum RawPrefixOperator (lib.rs:937-944)
RawPrefixOperators ==
    {"Bang", "Not", "PlusPlus", "MinusMinus", "Plus", "Minus"}

\* impl From<RawToken> for RawPrefixOperator (lib.rs:946-958); every other token
\* reaches the arm unreachable!().
RawPrefixOperator_from(token) ==
    CASE token = "++" -> "PlusPlus"
      [] token = "--" -> "MinusMinus"
      [] token = "+" -> "Plus"
      [] token = "-" -> "Minus"
      [] token = "!" -> "Bang"
      [] token = "~" -> "Not"
      [] OTHER -> "unreachable!()"

\* impl From<RawPrefixOperator> for RawToken (lib.rs:960-971)
RawToken_from_RawPrefixOperator(operator) ==
    CASE operator = "Bang" -> "!"
      [] operator = "Not" -> "~"
      [] operator = "PlusPlus" -> "++"
      [] operator = "MinusMinus" -> "--"
      [] operator = "Plus" -> "+"
      [] operator = "Minus" -> "-"

\* enum RawPostfixOperator (lib.rs:994-998)
RawPostfixOperators ==
    {"QuestionMark", "PlusPlus", "MinusMinus"}

\* impl From<RawToken> for RawPostfixOperator (lib.rs:1000-1009); every other token
\* reaches the arm unreachable!().
RawPostfixOperator_from(token) ==
    CASE token = "?" -> "QuestionMark"
      [] token = "++" -> "PlusPlus"
      [] token = "--" -> "MinusMinus"
      [] OTHER -> "unreachable!()"

\* impl From<RawPostfixOperator> for RawToken (lib.rs:1011-1019)
RawToken_from_RawPostfixOperator(operator) ==
    CASE operator = "QuestionMark" -> "?"
      [] operator = "PlusPlus" -> "++"
      [] operator = "MinusMinus" -> "--"

\* The characters of the tokens of the operators.
RawToken_chars(token) ==
    CASE token = "!" -> <<"!">>
      [] token = "!=" -> <<"!", "=">>
      [] token = "%" -> <<"%">>
      [] token = "%=" -> <<"%", "=">>
      [] token = "&" -> <<"&">>
      [] token = "&&" -> <<"&", "&">>
      [] token = "&=" -> <<"&", "=">>
      [] token = "*" -> <<"*">>
      [] token = "**" -> <<"*", "*">>
      [] token = "*=" -> <<"*", "=">>
      [] token = "+" -> <<"+">>
      [] token = "++" -> <<"+", "+">>
      [] token = "+=" -> <<"+", "=">>
      [] token = "-" -> <<"-">>
      [] token = "--" -> <<"-", "-">>
      [] token = "-=" -> <<"-", "=">>
      [] token = "/" -> <<"/">>
      [] token = "/=" -> <<"/", "=">>
      [] token = "<" -> <<"<">>
      [] token = "<<" -> <<"<", "<">>
      [] token = "<=" -> <<"<", "=">>
      [] token = "=" -> <<"=">>
      [] token = "==" -> <<"=", "=">>
      [] token = ">" -> <<">">>
      [] token = ">=" -> <<">", "=">>
      [] token = ">>" -> <<">", ">">>
      [] token = "?" -> <<"?">>
      [] token = "|" -> <<"|">>
      [] token = "|=" -> <<"|", "=">>
      [] token = "||" -> <<"|", "|">>
      [] token = "~" -> <<"~">>

\* impl Display for RawToken (ry_ast::token, not in src): the spelling of the
\* token between back-ticks.
RawToken_fmt(token) == <<BACKTICK>> \o RawToken_chars(token) \o <<BACKTICK>>

\* ------------------------------------------------------------------------
\* The serializer (crates/ry_ast/src/serialize.rs)
\*
\* The output is the sequence of the characters written. A span of the
\* serializer has a start, an end and a file id. A value to serialize is a
\* boolean ([type |-> "bool", bool]), a span ([type |-> "Span", span]), a
\* string ([type |-> "str", str]), a symbol ([type |-> "Symbol", symbol]) or
\* a node of the syntax tree: a record of the fields of the struct, or of the
\* variant of the enum, with its type in `type` and the variant in `variant`.
\* ------------------------------------------------------------------------

TAB == "\t"

\* Serializer::write
write(ser, str) == [ser EXCEPT !.output = @ \o str]

\* Serializer::write_newline
write_newline(ser) == [ser EXCEPT !.output = Append(@, LF)]

\* Serializer::write_identation
write_identation(ser) == write(ser, [i \in 1..ser.identation |-> TAB])

\* Serializer::increment_indentation and decrement_indentation. The level is
\* a usize: -1 stands for usize::MAX, the level a decrement at 0 wraps to in
\* a build without overflow checks, and an increment of it gives 0 again.
increment_indentation(ser) == [ser EXCEPT !.identation = @ + 1]

\* `underflow` tells that the level was 0 when it was decremented: the
\* subtraction overflows (a panic with overflow checks, a wrap without).
decrement_indentation(ser) ==
    [ser EXCEPT !.identation = @ - 1, !.underflow = @ \/ ser.identation = 0]

\* The digits of the decimal notation.
Digits == <<"0", "1", "2", "3", "4", "5", "6", "7", "8", "9">>

\* `{}` of format! for a usize: its decimal notation.
RECURSIVE to_string(_)
to_string(n) ==
    IF n < 10 THEN <<Digits[n + 1]>>
    ELSE to_string(n \div 10) \o <<Digits[(n % 10) + 1]>>

\* impl Serialize for bool
serialize_bool(ser, b) ==
    write(ser, IF b THEN <<"T", "R", "U", "E">> ELSE <<"F", "A", "L", "S", "E">>)

\* impl Serialize for Span
serialize_span(ser, span) ==
    IF span = DUMMY_SPAN THEN write(ser, <<"D", "U", "M", "M", "Y">>)
    ELSE write(ser, IF span.start >= span.end
                    THEN <<"I", "N", "V", "A", "L", "I", "D">>
                    ELSE to_string(span.start) \o <<".", ".">> \o to_string(span.end))

\* Serialize::serialize, by the type of the value (defined below).
RECURSIVE serialize(_, _)

\* Serializer::write_node_name
write_node_name(ser, node_name) == write(ser, node_name)

\* Serializer::write_node_name_with_span
write_node_name_with_span(ser, node_name, span) ==
    serialize_span(write(write(ser, node_name), <<"@">>), span)

\* Serializer::serialize_key_value_pair
serialize_key_value_pair(ser, key, value) ==
    Bind(ser, LAMBDA s :
        serialize(write(write(write_identation(write_newline(s)), key), <<":", " ">>), value))

\* Serializer::serialize_item
serialize_item(ser, item) == serialize(write_identation(write_newline(ser)), item)

\* The loop of Serializer::serialize_items (lines 134-136).
RECURSIVE serialize_items_loop(_, _)
serialize_items_loop(ser, items) ==
    IF items = <<>> THEN ser
    ELSE Bind(serialize_item(ser, Head(items)), LAMBDA s :
             serialize_items_loop(s, Tail(items)))

\* Serializer::serialize_items
serialize_items(ser, items) ==
    IF items = <<>> THEN write(ser, <<"E", "M", "P", "T", "Y">>)
    ELSE decrement_indentation(serialize_items_loop(increment_indentation(ser), items))

\* Serializer::serialize_key_list_value_pair
serialize_key_list_value_pair(ser, key, items) ==
    Bind(ser, LAMBDA s :
        serialize_items(write(write(write_identation(write_newline(s)), key), <<":", " ">>),
                        items))

\* The interner of the module serialized: the names of the symbols.
Names == <<<<"a">>, <<"b">>>>

\* impl Serialize for Symbol
serialize_symbol(ser, symbol) == write(ser, Names[symbol])

\* impl Serialize for IdentifierAst
serialize_identifier(ser, identifier) ==
    serialize_span(
        write(serialize_symbol(write(ser, <<"I", "D", "E", "N", "T", "I", "F", "I", "E", "R", "(", BACKTICK>>), identifier.symbol), <<BACKTICK, ")", "@">>),
        identifier.span)

\* A Path serializer that does not restore the level.
serialize_path_without_decrement(ser, path) ==
    serialize_items(
        increment_indentation(write_node_name_with_span(ser, <<"P", "A", "T", "H">>, path.span)),
        path.identifiers)

\* impl Serialize for Path
serialize_path(ser, path) ==
    decrement_indentation(
        serialize_items(
            increment_indentation(write_node_name_with_span(ser, <<"P", "A", "T", "H">>, path.span)),
            path.identifiers))

\* `{}` of format! for an f64 that is a whole number or has the digits
\* `fraction` after the point: 3 for 3.0, 1.5 for 1.5.
f64_to_string(value) ==
    IF value.fraction = <<>> THEN to_string(value.integer)
    ELSE to_string(value.integer) \o <<".">> \o value.fraction

\* impl Serialize for Literal.  The `value` of a variant is held in a field
\* named after its type: bool, char, f64, int (u64) and string.
serialize_literal(ser, literal) ==
    CASE literal.variant = "Boolean" ->
             write_node_name_with_span(
                 ser,
                 <<"B", "O", "O", "L", "E", "A", "N", "_", "L", "I", "T", "E", "R", "A", "L", "(">> \o (IF literal.bool THEN <<"T", "R", "U", "E">> ELSE <<"F", "A", "L", "S", "E">>) \o <<")">>,
                 literal.span)
      [] literal.variant = "Character" ->
             write_node_name_with_span(
                 ser, <<"C", "H", "A", "R", "A", "C", "T", "E", "R", "_", "L", "I", "T", "E", "R", "A", "L", "(", BACKTICK>> \o <<literal.char>> \o <<BACKTICK, ")">>, literal.span)
      [] literal.variant = "Float" ->
             write_node_name_with_span(
                 ser, <<"F", "L", "O", "A", "T", "_", "L", "I", "T", "E", "R", "A", "L", "(">> \o f64_to_string(literal.f64) \o <<")">>, literal.span)
      [] literal.variant = "Integer" ->
             write_node_name_with_span(
                 ser, <<"I", "N", "T", "E", "G", "E", "R", "_", "L", "I", "T", "E", "R", "A", "L", "(">> \o to_string(literal.int) \o <<")">>, literal.span)
      [] literal.variant = "String" ->
             write_node_name_with_span(
                 ser, <<"S", "T", "R", "I", "N", "G", "_", "L", "I", "T", "E", "R", "A", "L", "(", BACKTICK>> \o literal.string \o <<BACKTICK, ")">>, literal.span)

\* serialize_key_value_pair for an optional value: `if let Some(v) = ...`.
serialize_optional_pair(ser, key, option) ==
    IF option.some THEN serialize_key_value_pair(ser, key, option.v) ELSE ser

\* serialize_key_list_value_pair for an optional list: `if let Some(v) = ...`.
serialize_optional_list_pair(ser, key, option) ==
    IF option.some THEN serialize_key_list_value_pair(ser, key, option.v) ELSE ser

\* Serializer::new_span
new_span(start, end) == [start |-> start, end |-> end, file_id |-> 0]

\* TypeAst::span
TypeAst_span(ty) == IF ty.variant = "Path" THEN ty.path.span ELSE ty.span

\* impl Serialize for TypePath
serialize_type_path(ser, path) ==
    LET s1 == write_node_name_with_span(ser, <<"T", "Y", "P", "E", "_", "P", "A", "T", "H">>, path.span)
        s2 == increment_indentation(s1)
        s3 == serialize_items(s2, path.segments)
    IN  decrement_indentation(s3)

\* impl Serialize for TypePathSegment
serialize_type_path_segment(ser, segment) ==
    LET s1 == write_node_name_with_span(ser, <<"T", "Y", "P", "E", "_", "P", "A", "T", "H", "_", "S", "E", "G", "M", "E", "N", "T">>, segment.span)
        s2 == increment_indentation(s1)
        s3 == serialize_key_value_pair(s2, <<"P", "A", "T", "H">>, segment.path)
        s4 == serialize_optional_list_pair(s3, <<"G", "E", "N", "E", "R", "I", "C", "_", "A", "R", "G", "U", "M", "E", "N", "T", "S">>, segment.generic_arguments)
    IN  decrement_indentation(s4)

\* impl Serialize for GenericArgument
serialize_generic_argument(ser, argument) ==
    CASE argument.variant = "Type" ->
             LET s1 == write_node_name_with_span(ser, <<"G", "E", "N", "E", "R", "I", "C", "_", "A", "R", "G", "U", "M", "E", "N", "T">>, TypeAst_span(argument.ty))
                 s2 == increment_indentation(s1)
                 s3 == serialize_key_value_pair(s2, <<"T", "Y", "P", "E">>, argument.ty)
             IN  decrement_indentation(s3)
      [] argument.variant = "AssociatedType" ->
             LET s1 == write_node_name_with_span(ser, <<"N", "A", "M", "E", "D", "_", "G", "E", "N", "E", "R", "I", "C", "_", "A", "R", "G", "U", "M", "E", "N", "T">>, new_span(argument.name.span.start, TypeAst_span(argument.value).end))
                 s2 == increment_indentation(s1)
                 s3 == serialize_key_value_pair(s2, <<"N", "A", "M", "E">>, argument.name)
                 s4 == serialize_key_value_pair(s3, <<"V", "A", "L", "U", "E">>, argument.value)
             IN  decrement_indentation(s4)

\* impl Serialize for BinaryOperator
serialize_binary_operator(ser, operator) ==
    write_node_name_with_span(ser, RawToken_fmt(RawToken_from_RawBinaryOperator(operator.raw)),
                              operator.span)

\* impl Serialize for PostfixOperator
serialize_postfix_operator(ser, operator) ==
    write_node_name_with_span(ser, RawToken_fmt(RawToken_from_RawPostfixOperator(operator.raw)),
                              operator.span)

\* impl Serialize for PrefixOperator
serialize_prefix_operator(ser, operator) ==
    write_node_name_with_span(ser, RawToken_fmt(RawToken_from_RawPrefixOperator(operator.raw)),
                              operator.span)

\* impl Serialize for StructExpressionItem
serialize_struct_expression_item(ser, item) ==
    LET s1 == write_node_name(ser, <<"S", "T", "R", "U", "C", "T", "_", "E", "X", "P", "R", "E", "S", "S", "I", "O", "N", "_", "I", "T", "E", "M">>)
        s2 == increment_indentation(s1)
        s3 == serialize_key_value_pair(s2, <<"F", "I", "E", "L", "D", "_", "N", "A", "M", "E">>, item.name)
        s4 == serialize_optional_pair(s3, <<"V", "A", "L", "U", "E">>, item.value)
    IN  decrement_indentation(s4)

\* impl Serialize for StructFieldPattern
serialize_struct_field_pattern(ser, field) ==
    IF field.variant = "Rest"
    THEN write_node_name_with_span(ser, <<"R", "E", "S", "T", "_", "S", "T", "R", "U", "C", "T", "_", "F", "I", "E", "L", "D", "_", "P", "A", "T", "T", "E", "R", "N">>, field.span)
    ELSE decrement_indentation(
             serialize_optional_pair(
                 serialize_key_value_pair(
                     increment_indentation(
                         write_node_name_with_span(ser, <<"S", "T", "R", "U", "C", "T", "_", "F", "I", "E", "L", "D", "_", "P", "A", "T", "T", "E", "R", "N">>, field.span)),
                     <<"F", "I", "E", "L", "D", "_", "N", "A", "M", "E">>, field.field_name),
                 <<"V", "A", "L", "U", "E", "_", "P", "A", "T", "T", "E", "R", "N">>, field.value_pattern))

\* impl Serialize for Pattern
serialize_pattern(ser, pattern) ==
    CASE pattern.variant = "Grouped" ->
             decrement_indentation(
                 serialize_key_value_pair(
                     increment_indentation(
                         write_node_name_with_span(ser, <<"G", "R", "O", "U", "P", "E", "D", "_", "P", "A", "T", "T", "E", "R", "N">>, pattern.span)),
                     <<"I", "N", "N", "E", "R", "_", "P", "A", "T", "T", "E", "R", "N">>, pattern.inner))
      [] pattern.variant = "Identifier" ->
             decrement_indentation(
                 serialize_optional_pair(
                     serialize_key_value_pair(
                         increment_indentation(
                             write_node_name_with_span(ser, <<"I", "D", "E", "N", "T", "I", "F", "I", "E", "R", "_", "P", "A", "T", "T", "E", "R", "N">>, pattern.span)),
                         <<"I", "D", "E", "N", "T", "I", "F", "I", "E", "R">>, pattern.identifier),
                     <<"P", "A", "T", "T", "E", "R", "N">>, pattern.pattern))
      [] pattern.variant = "List" ->
             decrement_indentation(
                 serialize_key_list_value_pair(
                     increment_indentation(
                         write_node_name_with_span(ser, <<"L", "I", "S", "T", "_", "P", "A", "T", "T", "E", "R", "N">>, pattern.span)),
                     <<"I", "N", "N", "E", "R", "_", "P", "A", "T", "T", "E", "R", "N", "S">>, pattern.inner_patterns))
      [] pattern.variant = "Literal" -> serialize_literal(ser, pattern.literal)
      [] pattern.variant = "Or" ->
             decrement_indentation(
                 serialize_key_value_pair(
                     serialize_key_value_pair(
                         increment_indentation(
                             write_node_name_with_span(ser, <<"O", "R", "_", "P", "A", "T", "T", "E", "R", "N">>, pattern.span)),
                         <<"L", "E", "F", "T">>, pattern.left),
                     <<"R", "I", "G", "H", "T">>, pattern.right))
      [] pattern.variant = "Path" ->
             decrement_indentation(
                 serialize_key_value_pair(
                     increment_indentation(
                         write_node_name_with_span(ser, <<"P", "A", "T", "H", "_", "P", "A", "T", "T", "E", "R", "N">>, pattern.span)),
                     <<"P", "A", "T", "H">>, pattern.path))
      [] pattern.variant = "Rest" ->
             write_node_name_with_span(ser, <<"R", "E", "S", "T", "_", "P", "A", "T", "T", "E", "R", "N">>, pattern.span)
      [] pattern.variant = "Struct" ->
             decrement_indentation(
                 serialize_key_list_value_pair(
                     serialize_key_value_pair(
                         increment_indentation(
                             write_node_name_with_span(ser, <<"S", "T", "R", "U", "C", "T", "_", "P", "A", "T", "T", "E", "R", "N">>, pattern.span)),
                         <<"S", "T", "R", "U", "C", "T", "_", "P", "A", "T", "H">>, pattern.path),
                     <<"F", "I", "E", "L", "D", "S">>, pattern.fields))
      [] pattern.variant = "Tuple" ->
             decrement_indentation(
                 serialize_key_list_value_pair(
                     increment_indentation(
                         write_node_name_with_span(ser, <<"T", "U", "P", "L", "E", "_", "P", "A", "T", "T", "E", "R", "N">>, pattern.span)),
                     <<"E", "L", "E", "M", "E", "N", "T", "S">>, pattern.elements))
      [] pattern.variant = "TupleLike" ->
             decrement_indentation(
                 serialize_key_list_value_pair(
                     serialize_key_value_pair(
                         increment_indentation(
                             write_node_name_with_span(ser, <<"T", "U", "P", "L", "E", "_", "P", "A", "T", "T", "E", "R", "N">>, pattern.span)),
                         <<"P", "A", "T", "H">>, pattern.path),
                     <<"I", "N", "N", "E", "R", "_", "P", "A", "T", "T", "E", "R", "N", "S">>, pattern.inner_patterns))

\* impl Serialize for Statement
serialize_statement(ser, statement) ==
    CASE statement.variant = "Break" ->
             write_node_name_with_span(ser, <<"B", "R", "E", "A", "K", "_", "S", "T", "A", "T", "E", "M", "E", "N", "T">>, statement.span)
      [] statement.variant = "Continue" ->
             write_node_name_with_span(ser, <<"C", "O", "N", "T", "I", "N", "U", "E", "_", "S", "T", "A", "T", "E", "M", "E", "N", "T">>, statement.span)
      [] statement.variant = "Return" ->
             LET s1 == write_node_name(ser, <<"R", "E", "T", "U", "R", "N", "_", "S", "T", "A", "T", "E", "M", "E", "N", "T">>)
                 s2 == increment_indentation(s1)
                 s3 == serialize_key_value_pair(s2, <<"E", "X", "P", "R", "E", "S", "S", "I", "O", "N">>, statement.expression)
             IN  decrement_indentation(s3)
      [] statement.variant = "Defer" ->
             LET s1 == write_node_name(ser, <<"D", "E", "F", "E", "R", "_", "S", "T", "A", "T", "E", "M", "E", "N", "T">>)
                 s2 == increment_indentation(s1)
                 s3 == serialize_key_value_pair(s2, <<"C", "A", "L", "L">>, statement.call)
             IN  decrement_indentation(s3)
      [] statement.variant = "Expression" ->
             LET s1 == write_node_name(ser, <<"E", "X", "P", "R", "E", "S", "S", "I", "O", "N", "_", "S", "T", "A", "T", "E", "M", "E", "N", "T">>)
                 s2 == increment_indentation(s1)
                 s3 == serialize_key_value_pair(s2, <<"E", "X", "P", "R", "E", "S", "S", "I", "O", "N">>, statement.expression)
                 s4 == serialize_key_value_pair(s3, <<"H", "A", "S", "_", "S", "E", "M", "I", "C", "O", "L", "O", "N">>, statement.has_semicolon)
             IN  decrement_indentation(s4)
      [] statement.variant = "Let" ->
             LET s1 == write_node_name(ser, <<"L", "E", "T", "_", "S", "T", "A", "T", "E", "M", "E", "N", "T">>)
                 s2 == increment_indentation(s1)
                 s3 == serialize_key_value_pair(s2, <<"P", "A", "T", "T", "E", "R", "N">>, statement.pattern)
                 s4 == serialize_key_value_pair(s3, <<"V", "A", "L", "U", "E">>, statement.value)
                 s5 == serialize_optional_pair(s4, <<"T", "Y", "P", "E">>, statement.ty)
             IN  decrement_indentation(s5)

\* impl Serialize for (UntypedExpression, Vec<Statement>): `condition` is
\* the field 0 of the pair and `block` the field 1.
serialize_else_if(ser, pair) ==
    LET s1 == write_node_name(ser, <<"E", "L", "S", "E", "_", "I", "F", "_", "N", "O", "D", "E">>)
        s2 == increment_indentation(s1)
        s3 == serialize_key_value_pair(s2, <<"C", "O", "N", "D", "I", "T", "I", "O", "N">>, pair.condition)
        s4 == serialize_key_list_value_pair(s3, <<"S", "T", "A", "T", "E", "M", "E", "N", "T", "S", "_", "B", "L", "O", "C", "K">>, pair.block)
    IN  decrement_indentation(s4)

\* impl Serialize for MatchExpressionItem
serialize_match_expression_item(ser, item) ==
    LET s1 == write_node_name(ser, <<"M", "A", "T", "C", "H", "_", "E", "X", "P", "R", "E", "S", "S", "I", "O", "N", "_", "I", "T", "E", "M">>)
        s2 == increment_indentation(s1)
        s3 == serialize_key_value_pair(s2, <<"P", "A", "T", "T", "E", "R", "N">>, item.left)
        s4 == serialize_key_value_pair(s3, <<"E", "X", "P", "R", "E", "S", "S", "I", "O", "N">>, item.right)
    IN  decrement_indentation(s4)

\* impl Serialize for UntypedExpression
serialize_expression(ser, expression) ==
    CASE expression.variant = "As" ->
             LET s1 == write_node_name_with_span(ser, <<"C", "A", "S", "T", "_", "E", "X", "P", "R", "E", "S", "S", "I", "O", "N">>, expression.span)
                 s2 == increment_indentation(s1)
                 s3 == serialize_key_value_pair(s2, <<"L", "E", "F", "T">>, expression.left)
                 s4 == serialize_key_value_pair(s3, <<"R", "I", "G", "H", "T">>, expression.right)
             IN  decrement_indentation(s4)
      [] expression.variant = "Binary" ->
             LET s1 == write_node_name_with_span(ser, <<"B", "I", "N", "A", "R", "Y", "_", "E", "X", "P", "R", "E", "S", "S", "I", "O", "N">>, expression.span)
                 s2 == increment_indentation(s1)
                 s3 == serialize_key_value_pair(s2, <<"L", "E", "F", "T">>, expression.left)
                 s4 == serialize_key_value_pair(s3, <<"O", "P", "E", "R", "A", "T", "O", "R">>, expression.operator)
                 s5 == serialize_key_value_pair(s4, <<"R", "I", "G", "H", "T">>, expression.right)
             IN  decrement_indentation(s5)
      [] expression.variant = "Call" ->
             LET s1 == write_node_name_with_span(ser, <<"C", "A", "L", "L", "_", "E", "X", "P", "R", "E", "S", "S", "I", "O", "N">>, expression.span)
                 s2 == increment_indentation(s1)
                 s3 == serialize_key_value_pair(s2, <<"L", "E", "F", "T">>, expression.left)
                 s4 == serialize_key_list_value_pair(s3, <<"A", "R", "G", "U", "M", "E", "N", "T", "S">>, expression.arguments)
             IN  decrement_indentation(s4)
      [] expression.variant = "Function" ->
             LET s1 == write_node_name_with_span(ser, <<"F", "U", "N", "C", "T", "I", "O", "N", "_", "E", "X", "P", "R", "E", "S", "S", "I", "O", "N">>, expression.span)
                 s2 == increment_indentation(s1)
                 s3 == serialize_key_list_value_pair(s2, <<"P", "A", "R", "A", "M", "E", "T", "E", "R", "S">>, expression.parameters)
                 s4 == serialize_optional_pair(s3, <<"R", "E", "T", "U", "R", "N", "_", "T", "Y", "P", "E">>, expression.return_type)
                 s5 == serialize_key_list_value_pair(s4, <<"S", "T", "A", "T", "E", "M", "E", "N", "T", "S", "_", "B", "L", "O", "C", "K">>, expression.block)
             IN  decrement_indentation(s5)
      [] expression.variant = "GenericArguments" ->
             LET s1 == write_node_name_with_span(ser, <<"G", "E", "N", "E", "R", "I", "C", "_", "A", "R", "G", "U", "M", "E", "N", "T", "S">>, expression.span)
                 s2 == increment_indentation(s1)
                 s3 == serialize_key_value_pair(s2, <<"L", "E", "F", "T">>, expression.left)
                 s4 == serialize_key_list_value_pair(s3, <<"G", "E", "N", "E", "R", "I", "C", "_", "A", "R", "G", "U", "M", "E", "N", "T", "S">>, expression.generic_arguments)
             IN  decrement_indentation(s4)
      [] expression.variant = "Identifier" ->
             serialize(ser, expression.symbol)
      [] expression.variant = "If" ->
             LET s1 == write_node_name_with_span(ser, <<"I", "F", "_", "E", "X", "P", "R", "E", "S", "S", "I", "O", "N">>, expression.span)
                 s2 == increment_indentation(s1)
                 s3 == serialize_key_list_value_pair(s2, <<"I", "F", "_", "B", "L", "O", "C", "K", "S">>, expression.if_blocks)
                 s4 == serialize_optional_list_pair(s3, <<"E", "L", "S", "E", "_", "B", "L", "O", "C", "K">>, expression.else)
             IN  decrement_indentation(s4)
      [] expression.variant = "List" ->
             LET s1 == write_node_name_with_span(ser, <<"L", "I", "S", "T", "_", "E", "X", "P", "R", "E", "S", "S", "I", "O", "N">>, expression.span)
                 s2 == increment_indentation(s1)
                 s3 == serialize_key_list_value_pair(s2, <<"E", "L", "E", "M", "E", "N", "T", "S">>, expression.elements)
             IN  decrement_indentation(s3)
      [] expression.variant = "Parenthesized" ->
             LET s1 == write_node_name_with_span(ser, <<"P", "A", "R", "E", "N", "T", "H", "E", "S", "I", "Z", "E", "D", "_", "E", "X", "P", "R", "E", "S", "S", "I", "O", "N">>, expression.span)
                 s2 == increment_indentation(s1)
                 s3 == serialize_key_value_pair(s2, <<"I", "N", "N", "E", "R">>, expression.inner)
             IN  decrement_indentation(s3)
      [] expression.variant = "Postfix" ->
             LET s1 == write_node_name_with_span(ser, <<"P", "O", "S", "T", "F", "I", "X", "_", "E", "X", "P", "R", "E", "S", "S", "I", "O", "N">>, expression.span)
                 s2 == increment_indentation(s1)
                 s3 == serialize_key_value_pair(s2, <<"L", "E", "F", "T">>, expression.inner)
                 s4 == serialize_key_value_pair(s3, <<"O", "P", "E", "R", "A", "T", "O", "R">>, expression.operator)
             IN  decrement_indentation(s4)
      [] expression.variant = "Prefix" ->
             LET s1 == write_node_name_with_span(ser, <<"P", "R", "E", "F", "I", "X", "_", "E", "X", "P", "R", "E", "S", "S", "I", "O", "N">>, expression.span)
                 s2 == increment_indentation(s1)
                 s3 == serialize_key_value_pair(s2, <<"O", "P", "E", "R", "A", "T", "O", "R">>, expression.operator)
                 s4 == serialize_key_value_pair(s3, <<"I", "N", "N", "E", "R">>, expression.inner)
             IN  decrement_indentation(s4)
      [] expression.variant = "FieldAccess" ->
             LET s1 == write_node_name_with_span(ser, <<"F", "I", "E", "L", "D", "_", "A", "C", "C", "E", "S", "S", "_", "E", "X", "P", "R", "E", "S", "S", "I", "O", "N">>, expression.span)
                 s2 == increment_indentation(s1)
                 s3 == serialize_key_value_pair(s2, <<"L", "E", "F", "T">>, expression.left)
                 s4 == serialize_key_value_pair(s3, <<"R", "I", "G", "H", "T">>, expression.right)
             IN  decrement_indentation(s4)
      [] expression.variant = "StatementsBlock" ->
             LET s1 == write_node_name_with_span(ser, <<"B", "L", "O", "C", "K", "_", "E", "X", "P", "R", "E", "S", "S", "I", "O", "N">>, expression.span)
                 s2 == increment_indentation(s1)
                 s3 == serialize_key_list_value_pair(s2, <<"S", "T", "A", "T", "E", "M", "E", "N", "T", "S", "_", "B", "L", "O", "C", "K">>, expression.block)
             IN  decrement_indentation(s3)
      [] expression.variant = "Struct" ->
             LET s1 == write_node_name_with_span(ser, <<"S", "T", "R", "U", "C", "T", "_", "E", "X", "P", "R", "E", "S", "S", "I", "O", "N">>, expression.span)
                 s2 == increment_indentation(s1)
                 s3 == serialize_key_value_pair(s2, <<"L", "E", "F", "T">>, expression.left)
                 s4 == serialize_key_list_value_pair(s3, <<"F", "I", "E", "L", "D", "S">>, expression.fields)
             IN  decrement_indentation(s4)
      [] expression.variant = "Tuple" ->
             LET s1 == write_node_name_with_span(ser, <<"T", "U", "P", "L", "E", "_", "E", "X", "P", "R", "E", "S", "S", "I", "O", "N">>, expression.span)
                 s2 == increment_indentation(s1)
                 s3 == serialize_key_list_value_pair(s2, <<"E", "L", "E", "M", "E", "N", "T", "S">>, expression.elements)
             IN  decrement_indentation(s3)
      [] expression.variant = "While" ->
             LET s1 == write_node_name_with_span(ser, <<"W", "H", "I", "L", "E", "_", "E", "X", "P", "R", "E", "S", "S", "I", "O", "N">>, expression.span)
                 s2 == increment_indentation(s1)
                 s3 == serialize_key_value_pair(s2, <<"C", "O", "N", "D", "I", "T", "I", "O", "N">>, expression.condition)
                 s4 == serialize_key_list_value_pair(s3, <<"B", "O", "D", "Y", "_", "S", "T", "A", "T", "E", "M", "E", "N", "T", "S", "_", "B", "L", "O", "C", "K">>, expression.body)
             IN  decrement_indentation(s4)
      [] expression.variant = "Literal" ->
             serialize_literal(ser, expression.literal)
      [] expression.variant = "Match" ->
             LET s1 == write_node_name_with_span(ser, <<"M", "A", "T", "C", "H", "_", "E", "X", "P", "R", "E", "S", "S", "I", "O", "N">>, expression.span)
                 s2 == increment_indentation(s1)
                 s3 == serialize_key_value_pair(s2, <<"E", "X", "P", "R", "E", "S", "S", "I", "O", "N">>, expression.expression)
                 s4 == serialize_key_list_value_pair(s3, <<"B", "L", "O", "C", "K">>, expression.block)
             IN  decrement_indentation(s4)

\* impl Serialize for TypeAst
serialize_type(ser, ty) ==
    CASE ty.variant = "Function" ->
             LET s1 == write_node_name_with_span(ser, <<"F", "U", "N", "C", "T", "I", "O", "N", "_", "T", "Y", "P", "E">>, ty.span)
                 s2 == increment_indentation(s1)
                 s3 == serialize_key_list_value_pair(s2, <<"P", "A", "R", "A", "M", "E", "T", "E", "R", "_", "T", "Y", "P", "E", "S">>, ty.parameter_types)
                 s4 == serialize_key_value_pair(s3, <<"R", "E", "T", "U", "R", "N", "_", "T", "Y", "P", "E">>, ty.return_type)
             IN  decrement_indentation(s4)
      [] ty.variant = "Parenthesized" ->
             LET s1 == write_node_name_with_span(ser, <<"P", "A", "R", "E", "N", "T", "H", "E", "S", "I", "Z", "E", "D", "_", "T", "Y", "P", "E">>, ty.span)
                 s2 == increment_indentation(s1)
                 s3 == serialize_key_value_pair(s2, <<"T", "Y", "P", "E">>, ty.inner)
             IN  decrement_indentation(s3)
      [] ty.variant = "Path" ->
             serialize_type_path(ser, ty.path)
      [] ty.variant = "TraitObject" ->
             LET s1 == write_node_name_with_span(ser, <<"T", "R", "A", "I", "T", "_", "O", "B", "J", "E", "C", "T", "_", "T", "Y", "P", "E">>, ty.span)
                 s2 == increment_indentation(s1)
                 s3 == serialize_key_list_value_pair(s2, <<"B", "O", "U", "N", "D", "S">>, ty.bounds)
             IN  decrement_indentation(s3)
      [] ty.variant = "Tuple" ->
             LET s1 == write_node_name_with_span(ser, <<"T", "U", "P", "L", "E", "_", "T", "Y", "P", "E">>, ty.span)
                 s2 == increment_indentation(s1)
                 s3 == serialize_key_list_value_pair(s2, <<"E", "L", "E", "M", "E", "N", "T", "_", "T", "Y", "P", "E", "S">>, ty.element_types)
             IN  decrement_indentation(s3)
      [] ty.variant = "WithQualifiedPath" ->
             LET s1 == write_node_name_with_span(ser, <<"T", "Y", "P", "E", "_", "W", "I", "T", "H", "_", "Q", "U", "A", "L", "I", "F", "I", "E", "D", "_", "P", "A", "T", "H">>, ty.span)
                 s2 == increment_indentation(s1)
                 s3 == serialize_key_value_pair(s2, <<"L", "E", "F", "T">>, ty.left)
                 s4 == serialize_key_value_pair(s3, <<"R", "I", "G", "H", "T">>, ty.right)
                 s5 == serialize_key_list_value_pair(s4, <<"S", "E", "G", "M", "E", "N", "T", "S">>, ty.segments)
             IN  decrement_indentation(s5)

\* impl Serialize for GenericParameter
serialize_generic_parameter(ser, parameter) ==
    LET s1 == write_node_name(ser, <<"G", "E", "N", "E", "R", "I", "C", "_", "P", "A", "R", "A", "M", "E", "T", "E", "R">>)
        s2 == increment_indentation(s1)
        s3 == serialize_key_value_pair(s2, <<"N", "A", "M", "E">>, parameter.name)
        s4 == serialize_optional_list_pair(s3, <<"B", "O", "U", "N", "D", "S">>, parameter.bounds)
        s5 == serialize_optional_pair(s4, <<"D", "E", "F", "A", "U", "L", "T">>, parameter.default_value)
    IN  decrement_indentation(s5)

\* impl Serialize for WhereClauseItem
serialize_where_clause_item(ser, item) ==
    CASE item.variant = "Eq" ->
             LET s1 == write_node_name(ser, <<"W", "H", "E", "R", "E", "_", "C", "L", "A", "U", "S", "E", "_", "I", "T", "E", "M", "_", "E", "Q">>)
                 s2 == increment_indentation(s1)
                 s3 == serialize_key_value_pair(s2, <<"L", "E", "F", "T">>, item.left)
                 s4 == serialize_key_value_pair(s3, <<"R", "I", "G", "H", "T">>, item.right)
             IN  decrement_indentation(s4)
      [] item.variant = "Satisfies" ->
             LET s1 == write_node_name(ser, <<"W", "H", "E", "R", "E", "_", "C", "L", "A", "U", "S", "E", "_", "I", "T", "E", "M", "_", "S", "A", "T", "I", "S", "F", "I", "E", "S">>)
                 s2 == increment_indentation(s1)
                 s3 == serialize_key_value_pair(s2, <<"T", "Y", "P", "E">>, item.ty)
                 s4 == serialize_key_list_value_pair(s3, <<"B", "O", "U", "N", "D", "S">>, item.bounds)
             IN  decrement_indentation(s4)

\* impl Serialize for JustFunctionParameter
serialize_just_function_parameter(ser, parameter) ==
    LET s1 == write_node_name(ser, <<"F", "U", "N", "C", "T", "I", "O", "N", "_", "P", "A", "R", "A", "M", "E", "T", "E", "R">>)
        s2 == increment_indentation(s1)
        s3 == serialize_key_value_pair(s2, <<"N", "A", "M", "E">>, parameter.name)
        s4 == serialize_key_value_pair(s3, <<"T", "Y", "P", "E">>, parameter.ty)
        s5 == serialize_optional_pair(s4, <<"D", "E", "F", "A", "U", "L", "T", "_", "V", "A", "L", "U", "E">>, parameter.default_value)
    IN  decrement_indentation(s5)

\* impl Serialize for FunctionParameter
serialize_function_parameter(ser, parameter) ==
    CASE parameter.variant = "Just" ->
             serialize_just_function_parameter(ser, parameter.parameter)
      [] parameter.variant = "Self_" ->
             LET s1 == write_node_name(ser, <<"S", "E", "L", "F", "_", "P", "A", "R", "A", "M", "E", "T", "E", "R">>)
                 s2 == increment_indentation(s1)
                 s3 == serialize_key_value_pair(s2, <<"S", "E", "L", "F", "_", "S", "P", "A", "N">>, parameter.parameter.self_span)
                 s4 == serialize_optional_pair(s3, <<"T", "Y", "P", "E">>, parameter.parameter.ty)
             IN  decrement_indentation(s4)

\* impl Serialize for Function
serialize_function(ser, function) ==
    LET s1 == write_node_name(ser, <<"F", "U", "N", "C", "T", "I", "O", "N">>)
        s2 == increment_indentation(s1)
        s3 == serialize_key_value_pair(s2, <<"V", "I", "S", "I", "B", "I", "L", "I", "T", "Y">>, function.visibility)
        s4 == serialize_key_value_pair(s3, <<"N", "A", "M", "E">>, function.name)
        s5 == serialize_optional_list_pair(s4, <<"G", "E", "N", "E", "R", "I", "C", "_", "P", "A", "R", "A", "M", "E", "T", "E", "R", "S">>, function.generic_parameters)
        s6 == serialize_key_list_value_pair(s5, <<"P", "A", "R", "A", "M", "E", "T", "E", "R", "S">>, function.parameters)
        s7 == serialize_optional_pair(s6, <<"R", "E", "T", "U", "R", "N", "_", "T", "Y", "P", "E">>, function.return_type)
        s8 == serialize_optional_list_pair(s7, <<"W", "H", "E", "R", "E", "_", "C", "L", "A", "U", "S", "E">>, function.where_clause)
        s9 == serialize_optional_list_pair(s8, <<"B", "O", "D", "Y">>, function.body)
    IN  decrement_indentation(s9)

\* impl Serialize for StructField
serialize_struct_field(ser, field) ==
    LET s1 == write_node_name(ser, <<"S", "T", "R", "U", "C", "T", "_", "F", "I", "E", "L", "D">>)
        s2 == increment_indentation(s1)
        s3 == serialize_key_value_pair(s2, <<"V", "I", "S", "I", "B", "I", "L", "I", "T", "Y">>, field.visibility)
        s4 == serialize_key_value_pair(s3, <<"N", "A", "M", "E">>, field.name)
        s5 == serialize_key_value_pair(s4, <<"T", "Y", "P", "E">>, field.ty)
    IN  decrement_indentation(s5)

\* impl Serialize for TupleField
serialize_tuple_field(ser, field) ==
    LET s1 == write_node_name(ser, <<"T", "U", "P", "L", "E", "_", "F", "I", "E", "L", "D">>)
        s2 == increment_indentation(s1)
        s3 == serialize_key_value_pair(s2, <<"V", "I", "S", "I", "B", "I", "L", "I", "T", "Y">>, field.visibility)
        s4 == serialize_key_value_pair(s3, <<"T", "Y", "P", "E">>, field.ty)
    IN  decrement_indentation(s4)

\* impl Serialize for EnumItem
serialize_enum_item(ser, item) ==
    CASE item.variant = "Just" ->
             LET s1 == write_node_name(ser, <<"E", "M", "P", "T", "Y", "_", "E", "N", "U", "M", "_", "I", "T", "E", "M">>)
                 s2 == increment_indentation(s1)
                 s3 == serialize_key_value_pair(s2, <<"I", "T", "E", "M", "_", "N", "A", "M", "E">>, item.name)
             IN  decrement_indentation(s3)
      [] item.variant = "Struct" ->
             LET s1 == write_node_name(ser, <<"S", "T", "R", "U", "C", "T", "_", "E", "N", "U", "M", "_", "I", "T", "E", "M">>)
                 s2 == increment_indentation(s1)
                 s3 == serialize_key_value_pair(s2, <<"N", "A", "M", "E">>, item.name)
                 s4 == serialize_key_list_value_pair(s3, <<"F", "I", "E", "L", "D", "S">>, item.fields)
             IN  decrement_indentation(s4)
      [] item.variant = "Tuple" ->
             LET s1 == write_node_name(ser, <<"T", "U", "P", "L", "E", "_", "E", "N", "U", "M", "_", "I", "T", "E", "M">>)
                 s2 == increment_indentation(s1)
                 s3 == serialize_key_value_pair(s2, <<"N", "A", "M", "E">>, item.name)
                 s4 == serialize_key_list_value_pair(s3, <<"F", "I", "E", "L", "D", "S">>, item.fields)
             IN  decrement_indentation(s4)

\* impl Serialize for TypeAlias
serialize_type_alias(ser, alias) ==
    LET s1 == write_node_name(ser, <<"T", "Y", "P", "E", "_", "A", "L", "I", "A", "S">>)
        s2 == increment_indentation(s1)
        s3 == serialize_key_value_pair(s2, <<"N", "A", "M", "E">>, alias.name)
        s4 == serialize_optional_list_pair(s3, <<"G", "E", "N", "E", "R", "I", "C", "_", "P", "A", "R", "A", "M", "E", "T", "E", "R", "S">>, alias.generic_parameters)
        s5 == serialize_optional_list_pair(s4, <<"B", "O", "U", "N", "D", "S">>, alias.bounds)
        s6 == serialize_optional_pair(s5, <<"V", "A", "L", "U", "E">>, alias.value)
    IN  decrement_indentation(s6)

\* impl Serialize for TraitItem
serialize_trait_item(ser, item) ==
    CASE item.variant = "AssociatedFunction" ->
             serialize_function(ser, item.function)
      [] item.variant = "TypeAlias" ->
             serialize_type_alias(ser, item.alias)

\* impl Serialize for Visibility
serialize_visibility(ser, visibility) ==
    IF visibility.some
    THEN serialize_span(write(ser, <<"P", "U", "B", "L", "I", "C", "@">>), visibility.v)
    ELSE write(ser, <<"P", "R", "I", "V", "A", "T", "E">>)

\* impl Serialize for ImportPath
serialize_import_path(ser, path) ==
    decrement_indentation(
        serialize_optional_pair(
            serialize_optional_pair(
                serialize_key_value_pair(
                    increment_indentation(write_node_name(ser, <<"I", "M", "P", "O", "R", "T", "_", "P", "A", "T", "H">>)),
                    <<"P", "A", "T", "H">>, path.left),
                <<"A", "S">>, path.as),
            <<"S", "T", "A", "R", "_", "S", "P", "A", "N">>, path.star_span))

\* impl Serialize for Item
serialize_item_node(ser, item) ==
    CASE item.variant = "Enum" ->
             LET s1 == write_node_name(ser, <<"E", "N", "U", "M">>)
                 s2 == increment_indentation(s1)
                 s3 == serialize_key_value_pair(s2, <<"V", "I", "S", "I", "B", "I", "L", "I", "T", "Y">>, item.visibility)
                 s4 == serialize_key_value_pair(s3, <<"N", "A", "M", "E">>, item.name)
                 s5 == serialize_optional_list_pair(s4, <<"G", "E", "N", "E", "R", "I", "C", "_", "P", "A", "R", "A", "M", "E", "T", "E", "R", "S">>, item.generic_parameters)
                 s6 == serialize_optional_list_pair(s5, <<"W", "H", "E", "R", "E", "_", "C", "L", "A", "U", "S", "E">>, item.where_clause)
                 s7 == serialize_key_list_value_pair(s6, <<"I", "T", "E", "M", "S">>, item.items)
             IN  decrement_indentation(s7)
      [] item.variant = "Function" ->
             serialize_function(ser, item.function)
      [] item.variant = "Impl" ->
             LET s1 == write_node_name(ser, <<"I", "M", "P", "L">>)
                 s2 == increment_indentation(s1)
                 s3 == serialize_optional_list_pair(s2, <<"G", "E", "N", "E", "R", "I", "C", "_", "P", "A", "R", "A", "M", "E", "T", "E", "R", "S">>, item.generic_parameters)
                 s4 == serialize_key_value_pair(s3, <<"T", "Y", "P", "E">>, item.ty)
                 s5 == serialize_optional_pair(s4, <<"T", "R", "A", "I", "T">>, item.trait)
                 s6 == serialize_optional_list_pair(s5, <<"W", "H", "E", "R", "E", "_", "C", "L", "A", "U", "S", "E">>, item.where_clause)
                 s7 == serialize_key_list_value_pair(s6, <<"I", "T", "E", "M", "S">>, item.items)
             IN  decrement_indentation(s7)
      [] item.variant = "Struct" ->
             LET s1 == write_node_name(ser, <<"S", "T", "R", "U", "C", "T">>)
                 s2 == increment_indentation(s1)
                 s3 == serialize_key_value_pair(s2, <<"V", "I", "S", "I", "B", "I", "L", "I", "T", "Y">>, item.visibility)
                 s4 == serialize_key_value_pair(s3, <<"N", "A", "M", "E">>, item.name)
                 s5 == serialize_optional_list_pair(s4, <<"G", "E", "N", "E", "R", "I", "C", "_", "P", "A", "R", "A", "M", "E", "T", "E", "R", "S">>, item.generic_parameters)
                 s6 == serialize_optional_list_pair(s5, <<"W", "H", "E", "R", "E", "_", "C", "L", "A", "U", "S", "E">>, item.where_clause)
                 s7 == serialize_key_list_value_pair(s6, <<"F", "I", "E", "L", "D", "S">>, item.fields)
             IN  decrement_indentation(s7)
      [] item.variant = "Trait" ->
             LET s1 == write_node_name(ser, <<"T", "R", "A", "I", "T">>)
                 s2 == increment_indentation(s1)
                 s3 == serialize_key_value_pair(s2, <<"V", "I", "S", "I", "B", "I", "L", "I", "T", "Y">>, item.visibility)
                 s4 == serialize_key_value_pair(s3, <<"N", "A", "M", "E">>, item.name)
                 s5 == serialize_optional_list_pair(s4, <<"G", "E", "N", "E", "R", "I", "C", "_", "P", "A", "R", "A", "M", "E", "T", "E", "R", "S">>, item.generic_parameters)
                 s6 == serialize_optional_list_pair(s5, <<"W", "H", "E", "R", "E", "_", "C", "L", "A", "U", "S", "E">>, item.where_clause)
                 s7 == serialize_key_list_value_pair(s6, <<"I", "T", "E", "M", "S">>, item.items)
             IN  decrement_indentation(s7)
      [] item.variant = "TupleLikeStruct" ->
             LET s1 == write_node_name(ser, <<"T", "U", "P", "L", "E", "_", "L", "I", "K", "E", "_", "S", "T", "R", "U", "C", "T">>)
                 s2 == increment_indentation(s1)
                 s3 == serialize_key_value_pair(s2, <<"V", "I", "S", "I", "B", "I", "L", "I", "T", "Y">>, item.visibility)
                 s4 == serialize_key_value_pair(s3, <<"N", "A", "M", "E">>, item.name)
                 s5 == serialize_optional_list_pair(s4, <<"G", "E", "N", "E", "R", "I", "C", "_", "P", "A", "R", "A", "M", "E", "T", "E", "R", "S">>, item.generic_parameters)
                 s6 == serialize_optional_list_pair(s5, <<"W", "H", "E", "R", "E", "_", "C", "L", "A", "U", "S", "E">>, item.where_clause)
                 s7 == serialize_key_list_value_pair(s6, <<"F", "I", "E", "L", "D", "S">>, item.fields)
             IN  decrement_indentation(s7)
      [] item.variant = "TypeAlias" ->
             serialize_type_alias(ser, item.alias)
      [] item.variant = "Import" ->
             LET s1 == write_node_name(ser, <<"U", "S", "E">>)
                 s2 == increment_indentation(s1)
                 s3 == serialize_key_value_pair(s2, <<"V", "I", "S", "I", "B", "I", "L", "I", "T", "Y">>, item.visibility)
                 s4 == serialize_key_value_pair(s3, <<"I", "M", "P", "O", "R", "T", "_", "P", "A", "T", "H">>, item.path)
             IN  decrement_indentation(s4)

\* impl Serialize for Module
serialize_module(ser, module) ==
    decrement_indentation(
        serialize_key_list_value_pair(
            serialize_key_value_pair(
                increment_indentation(write_node_name(ser, <<"M", "O", "D", "U", "L", "E">>)),
                <<"F", "I", "L", "E", "P", "A", "T", "H">>, module.path_str),
            <<"I", "T", "E", "M", "S">>, module.items))

\* Serialize::serialize: the implementation for the type of the value, one
\* for each of the thirty-five `impl Serialize for` of serialize.rs.
serialize(ser, value) ==
    CASE value.type = "bool" -> serialize_bool(ser, value.bool)
      [] value.type = "Span" -> serialize_span(ser, value.span)
      [] value.type = "Symbol" -> serialize_symbol(ser, value.symbol)
      [] value.type = "IdentifierAst" -> serialize_identifier(ser, value)
      [] value.type = "Path" -> serialize_path(ser, value)
      [] value.type = "TypePath" -> serialize_type_path(ser, value)
      [] value.type = "TypePathSegment" -> serialize_type_path_segment(ser, value)
      [] value.type = "GenericArgument" -> serialize_generic_argument(ser, value)
      [] value.type = "BinaryOperator" -> serialize_binary_operator(ser, value)
      [] value.type = "PostfixOperator" -> serialize_postfix_operator(ser, value)
      [] value.type = "PrefixOperator" -> serialize_prefix_operator(ser, value)
      [] value.type = "StructExpressionItem" -> serialize_struct_expression_item(ser, value)
      [] value.type = "Literal" -> serialize_literal(ser, value)
      [] value.type = "StructFieldPattern" -> serialize_struct_field_pattern(ser, value)
      [] value.type = "Pattern" -> serialize_pattern(ser, value)
      [] value.type = "Statement" -> serialize_statement(ser, value)
      [] value.type = "(UntypedExpression, Vec<Statement>)" -> serialize_else_if(ser, value)
      [] value.type = "MatchExpressionItem" -> serialize_match_expression_item(ser, value)
      [] value.type = "UntypedExpression" -> serialize_expression(ser, value)
      [] value.type = "TypeAst" -> serialize_type(ser, value)
      [] value.type = "Visibility" -> serialize_visibility(ser, value)
      [] value.type = "GenericParameter" -> serialize_generic_parameter(ser, value)
      [] value.type = "WhereClauseItem" -> serialize_where_clause_item(ser, value)
      [] value.type = "JustFunctionParameter" -> serialize_just_function_parameter(ser, value)
      [] value.type = "FunctionParameter" -> serialize_function_parameter(ser, value)
      [] value.type = "Function" -> serialize_function(ser, value)
      [] value.type = "StructField" -> serialize_struct_field(ser, value)
      [] value.type = "TupleField" -> serialize_tuple_field(ser, value)
      [] value.type = "EnumItem" -> serialize_enum_item(ser, value)
      [] value.type = "TypeAlias" -> serialize_type_alias(ser, value)
      [] value.type = "TraitItem" -> serialize_trait_item(ser, value)
      [] value.type = "ImportPath" -> serialize_import_path(ser, value)
      [] value.type = "Item" -> serialize_item_node(ser, value)
      [] value.type = "str" -> write(ser, value.str)
      [] value.type = "Module" -> serialize_module(ser, value)

\* serialize_ast: the module serialized by a new serializer.
serialize_ast(module) ==
    serialize([identation |-> 0, output |-> <<>>, underflow |-> FALSE, panicked |-> FALSE,
               calls |-> <<>>], module)

\* ------------------------------------------------------------------------
\* The state machine: one scanner at a time over a text, the interner
\* shared by the scanners that follow one another.
\* ------------------------------------------------------------------------

\* Calls allowed on one scanner once it has returned EndOfFile.
MaxEofCalls == 2

\* Scanners constructed one after another over the same interner.
MaxLexers == 2

\* Fragments concatenated into a source text.
MaxFrags == 3

\* Characters of a text of punctuators.
MaxPunct == 2

\* Fragments after the two slashes of a comment.
MaxComment == 3

\* Characters and escapes between the quotes of a char literal.
MaxLitFrags == 3

\* Fragments that follow the digits of an escape sequence.
MaxTail == 1

\* Longest run of digits in an escape sequence: one more than \U{..} takes.
MaxHexRun == 9

\* Fragments of a text of identifiers.
MaxIdentFrags == 3

\* Fragments of the text a reused interner is given.
MaxReuseFrags == 1

VARIABLES
    lexer,   \* the Lexer
    out,     \* the calls made on this scanner: the token returned, the
             \* location before and after the call, the symbol left in
             \* scanned_identifier
    mode,    \* which of next_token / next_no_comments were called on it
    idents,  \* the identifiers scanned with this interner: text, symbol, and
             \* the number of the scanner
    lexers,  \* the number of scanners constructed so far
    parser,  \* the parser over the scanner and what its call returned
    scopes,  \* the chain of scopes of the analysis, outermost first
    serializer  \* the Serializer

vars == <<lexer, out, mode, idents, lexers, parser, scopes, serializer>>

\* The parts of the state a run of the scanner alone leaves unused.
NoParser == [called |-> "none"]
NoScopes == [chain |-> <<>>, added |-> <<>>, found |-> None]
NoSerializer ==
    [identation |-> 0, output |-> <<>>, underflow |-> FALSE, panicked |-> FALSE, calls |-> <<>>]

ScannerOnly == parser = NoParser /\ scopes = NoScopes /\ serializer = NoSerializer

\* The texts made of at most n fragments.
RECURSIVE Texts(_, _)
Texts(frags, n) ==
    IF n = 0 THEN {<<>>}
    ELSE LET T == Texts(frags, n - 1) IN T \cup {t \o f : t \in T, f \in frags}

Frags ==
    {<<"a">>, <<"1">>, <<" ">>, <<LF>>, <<"/", "/">>, <<"/", "/", "/">>, <<"!">>,
     <<DQUOTE>>, <<BACKSLASH>>, <<NUL>>, <<"U+00E9">>, <<"U+0661">>}

Sources == Texts(Frags, MaxFrags)

\* Texts of punctuators, and texts with a comment.
PunctFrags ==
    {<<"+">>, <<"-">>, <<"*">>, <<"/">>, <<"=">>, <<"!">>, <<">">>, <<"<">>,
     <<"|">>, <<"&">>, <<"^">>, <<"%">>, <<".">>, <<LF>>}

CommentFrags == {<<"/">>, <<"!">>, <<"a">>, <<"U+00E9">>, <<LF>>, <<NUL>>}

PunctSources ==
    Texts(PunctFrags, MaxPunct)
    \cup {pre \o <<"/", "/">> \o t :
             pre \in {<<>>, <<"+">>, <<"U+00E9", " ">>},
             t \in Texts(CommentFrags, MaxComment)}

\* Texts with a char literal: the quote, what lies between the quotes, what
\* ends the literal, and what follows.
LitFrags ==
    {<<"a">>, <<"U+00E9">>, <<BACKSLASH>>, <<BACKSLASH, "n">>,
     <<BACKSLASH, "x", "{", "a", "a", "}">>, <<NUL>>}

LitSources ==
    {<<SQUOTE>> \o t \o close \o post :
        t \in Texts(LitFrags, MaxLitFrags),
        close \in {<<SQUOTE>>, <<LF>>, <<>>},
        post \in {<<>>, <<"a">>}}

\* Texts with one escape sequence at the start of a literal: a quote, the
\* backslash, the flavour, the bracket or not, a run of digits, and a tail.
Rep(c, k) == [i \in 1..k |-> c]

TailFrags == {<<"}">>, <<"g">>, <<DQUOTE>>}

EscSources ==
    {pre \o <<q, BACKSLASH>> \o fl \o open \o digits \o tail :
        pre \in {<<>>, <<"U+00E9">>},
        q \in {DQUOTE, SQUOTE},
        fl \in {<<"x">>, <<"u">>, <<"U">>, <<"n">>, <<"g">>, <<>>},
        open \in {<<"{">>, <<>>},
        digits \in {Rep("a", k) : k \in 0..MaxHexRun} \cup {Rep("d", UnicodeEscapeDigits)},
        tail \in Texts(TailFrags, MaxTail)}
    \cup
    {<<q, BACKSLASH, "U", "{", "0", "0", "0", "0">> \o Rep(h, k) \o tail :
        q \in {DQUOTE, SQUOTE},
        h \in {"a", "d"},
        k \in 0..5,
        tail \in Texts(TailFrags, MaxTail)}

\* The texts of the identifier checks.
IdentFrags == {<<"i">>, <<"f">>, <<"U+00E9">>, <<" ">>, <<BACKTICK>>}

IdentSources == Texts(IdentFrags, MaxIdentFrags)

\* The texts given to a reused interner.
ReuseSources == Texts(IdentFrags, MaxReuseFrags)

EofCount(o) == Cardinality({i \in 1..Len(o) : o[i].tok.raw = "EndOfFile"})

\* The text of an identifier token: the text of its span, without the
\* back-ticks of a wrapped identifier.
IdentText(source, span) ==
    LET t == Slice(source, span.start, span.end) IN
    IF t # <<>> /\ t[1] = BACKTICK THEN SubSeq(t, 2, Len(t) - 1) ELSE t

Record(lx, r) ==
    [tok |-> r.tok, from |-> lx.location, to |-> r.lx.location,
     symbol |-> r.lx.scanned_identifier]

Scanned(lx, r, nth) ==
    IF r.tok.raw = "Identifier"
    THEN {[text |-> IdentText(lx.source, r.tok.span), symbol |-> r.lx.scanned_identifier,
           lexer |-> nth]}
    ELSE {}

InitWith(sources) ==
    /\ lexer \in {Lexer_new(s, EmptyInterner) : s \in sources}
    /\ out = <<>>
    /\ mode = "new"
    /\ idents = {}
    /\ lexers = 1
    /\ ScannerOnly

Init == InitWith(Sources)

InitPunct == InitWith(PunctSources)

InitLit == InitWith(LitSources)

InitEsc == InitWith(EscSources)

InitIdent == InitWith(IdentSources)

CallNextToken ==
    /\ EofCount(out) < MaxEofCalls
    /\ LET r == next_token(lexer) IN
         /\ lexer' = r.lx
         /\ out' = Append(out, Record(lexer, r))
         /\ idents' = idents \cup Scanned(lexer, r, lexers)
    /\ mode' = IF mode \in {"new", "next_token"} THEN "next_token" ELSE "mixed"
    /\ UNCHANGED <<lexers, parser, scopes, serializer>>

CallNextNoComments ==
    /\ EofCount(out) < MaxEofCalls
    /\ LET r == next_no_comments(lexer) IN
         /\ lexer' = r.lx
         /\ out' = Append(out, Record(lexer, r))
         /\ idents' = idents \cup Scanned(lexer, r, lexers)
    /\ mode' = IF mode \in {"new", "next_no_comments"} THEN "next_no_comments" ELSE "mixed"
    /\ UNCHANGED <<lexers, parser, scopes, serializer>>

\* Lexer::scanned_string: the buffer of the string scanned last is taken, and
\* the scanner keeps an empty one.
scanned_string(lx) ==
    [string |-> lx.scanned_string, lx |-> [lx EXCEPT !.scanned_string = <<>>]]

CallScannedString ==
    /\ lexer' = scanned_string(lexer).lx
    /\ UNCHANGED <<out, mode, idents, lexers, parser, scopes, serializer>>

\* The scanner is dropped and a new one is made over another text, with the
\* same interner.
NewLexer ==
    /\ lexers < MaxLexers
    /\ \E s \in ReuseSources : lexer' = Lexer_new(s, lexer.interner)
    /\ out' = <<>>
    /\ mode' = "new"
    /\ lexers' = lexers + 1
    /\ UNCHANGED <<idents, parser, scopes, serializer>>

\* --- the parser over a text ---------------------------------------------

\* Operators in a chain of binary operators.
MaxOperators == 2

\* The operands of the chains: a name, and a parenthesized expression of
\* the lowest precedence.
Operands == {<<"a">>, <<"(", "a", " ", "=", " ", "1", ")">>}

\* The binary operators of the chains: four precedences, two operators of
\* the same one.
Operators == {<<"=">>, <<"+">>, <<"-">>, <<"*">>, <<"*", "*">>}

\* operand (operator operand)*, separated by spaces
RECURSIVE Chains(_)
Chains(n) ==
    IF n = 0 THEN Operands
    ELSE LET C == Chains(n - 1) IN
         C \cup {c \o <<" ">> \o op \o <<" ">> \o x : c \in C, op \in Operators, x \in Operands}

BinarySources == Chains(MaxOperators)

InitBinary == InitWith(BinarySources)

\* A parser applied to its argument, and to its two arguments.
Call(parse(_), p) == parse(p)

Call2(parse(_, _), p, a) == parse(p, a)

\* What a call of the parser returned.
Parsed(called, r) == [called |-> called, ok |-> r.ok, value |-> r.v, state |-> r.p]

\* The call returns: the parser keeps the result, the scanner is where the
\* parser left it.
Returned(called, r) ==
    /\ parser' = Parsed(called, r)
    /\ lexer' = r.p.lexer

\* Parser::new over the scanner, then parse_expression from the lowest
\* precedence.
CallParseExpression ==
    /\ parser = NoParser
    /\ Returned("parse_expression",
                Call2(parse_expression, Call(Parser_new, lexer), Precedence("Lowest")))
    /\ UNCHANGED <<out, mode, idents, lexers, scopes, serializer>>

NextBinary == CallParseExpression

\* Chains of binary operators, parsed.
SpecBinary == InitBinary /\ [][NextBinary]_vars

\* Elements of a list literal.
MaxElements == 2

\* The sequences of at most n members of a set.
RECURSIVE SeqsUpTo(_, _)
SeqsUpTo(S, n) ==
    IF n = 0 THEN {<<>>}
    ELSE LET Q == SeqsUpTo(S, n - 1) IN Q \cup {Append(q, x) : q \in Q, x \in S}

\* The element expressions of the lists, with the kind of node of each: a
\* name, a number, a sum, a string with a comma in it, a char, a list.
Elements ==
    {[text |-> <<"a">>, kind |-> "StaticName"],
     [text |-> <<"1">>, kind |-> "Int"],
     [text |-> <<"a", " ", "+", " ", "1">>, kind |-> "Binary"],
     [text |-> <<DQUOTE, "a", ",", DQUOTE>>, kind |-> "String"],
     [text |-> <<SQUOTE, ",", SQUOTE>>, kind |-> "Char"],
     [text |-> <<"[", "a", ",", "]">>, kind |-> "List"]}

ElementSeqs == SeqsUpTo(Elements, MaxElements)

\* The elements separated by a comma and a space.
RECURSIVE CommaSeparated(_)
CommaSeparated(es) ==
    IF Len(es) = 0 THEN <<>>
    ELSE IF Len(es) = 1 THEN es[1].text
    ELSE es[1].text \o <<",", " ">> \o CommaSeparated(Tail(es))

\* The list literal of the elements, with a comma after the last one or not.
ListText(es, trailing) ==
    <<"[">> \o CommaSeparated(es) \o (IF trailing THEN <<",">> ELSE <<>>) \o <<"]">>

ListSources ==
    {ListText(es, FALSE) \o post : es \in ElementSeqs, post \in {<<>>, <<" ", "a">>}}
    \cup
    {ListText(es, TRUE) \o post : es \in ElementSeqs \ {<<>>}, post \in {<<>>, <<" ", "a">>}}

InitList == InitWith(ListSources)

\* Parser over the scanner, then ArrayLiteralExpressionParser on a text that
\* starts with `[`.
CallArrayLiteralExpressionParser ==
    /\ parser = NoParser
    /\ Call(Parser_new, lexer).next.raw = "["
    /\ Returned("ArrayLiteralExpressionParser",
                Call(ArrayLiteralExpressionParser, Call(Parser_new, lexer)))
    /\ UNCHANGED <<out, mode, idents, lexers, scopes, serializer>>

NextList == CallParseExpression \/ CallArrayLiteralExpressionParser

\* List literals, parsed by either parser.
SpecList == InitList /\ [][NextList]_vars

\* Element types between the parentheses of a type.
MaxTypeElements == 2

\* The element types, with the kind of node of each: a name, a name with
\* generic arguments, a parenthesized type.
TypeElements ==
    {[text |-> <<"a">>, kind |-> "Path"],
     [text |-> <<"a", "[", "b", ",", " ", "b", "]">>, kind |-> "Path"],
     [text |-> <<"(", "a", ")">>, kind |-> "Parenthesized"]}

TypeElementSeqs == SeqsUpTo(TypeElements, MaxTypeElements)

\* What lies between the last element (or its comma) and the closing
\* parenthesis: nothing, white space, a comment, a comment with a comma.
Gaps ==
    {<<>>, <<" ">>, <<LF>>, <<" ", "/", "/", "a", LF>>, <<"/", "/", ",", LF>>}

\* ( elements gap ), followed by `: a` or not
ParenthesesText(ts, trailing, gap, ret) ==
    <<"(">> \o CommaSeparated(ts) \o (IF trailing THEN <<",">> ELSE <<>>) \o gap \o <<")">>
    \o (IF ret THEN <<":", " ", "a">> ELSE <<>>)

TypeSources ==
    {ParenthesesText(ts, FALSE, gap, ret) :
        ts \in TypeElementSeqs, gap \in Gaps, ret \in BOOLEAN}
    \cup
    {ParenthesesText(ts, TRUE, gap, ret) :
        ts \in TypeElementSeqs \ {<<>>}, gap \in Gaps, ret \in BOOLEAN}

InitType == InitWith(TypeSources)

\* ParseState over the scanner, then TypeParser.
CallTypeParser ==
    /\ parser = NoParser
    /\ Returned("TypeParser", Call(TypeParser, Call(Parser_new, lexer)))
    /\ UNCHANGED <<out, mode, idents, lexers, scopes, serializer>>

NextType == CallTypeParser

\* Types that start with a parenthesis, parsed.
SpecType == InitType /\ [][NextType]_vars

\* Entries of a generic-argument list.
MaxGenericArguments == 2

\* The entries of the generic-argument lists: a type, or a type followed by
\* `=` and a type. `binding` tells the entries that are a single name
\* followed by `=`; `equals` tells the entries with a `=`.
GenericEntries ==
    {[text |-> <<"b">>, kind |-> "Type", equals |-> FALSE],
     [text |-> <<"(", "b", ")">>, kind |-> "Type", equals |-> FALSE],
     [text |-> <<"b", "[", "a", "]">>, kind |-> "Type", equals |-> FALSE],
     [text |-> <<"b", " ", "=", " ", "a">>, kind |-> "AssociatedType", equals |-> TRUE],
     [text |-> <<"b", "[", "a", "]", " ", "=", " ", "a">>, kind |-> "Type", equals |-> TRUE],
     [text |-> <<"b", ".", "a", " ", "=", " ", "a">>, kind |-> "Type", equals |-> TRUE],
     [text |-> <<"(", "b", ")", " ", "=", " ", "a">>, kind |-> "Type", equals |-> TRUE]}

GenericEntrySeqs == SeqsUpTo(GenericEntries, MaxGenericArguments)

\* a[ entries ]
GenericText(es) == <<"a", "[">> \o CommaSeparated(es) \o <<"]">>

GenericSources == {GenericText(es) : es \in GenericEntrySeqs}

InitGeneric == InitWith(GenericSources)

\* ParseState over the scanner and, once the name that begins the text is
\* consumed, GenericArgumentsParser on the bracket that follows it.
CallGenericArgumentsParser ==
    /\ parser = NoParser
    /\ LET p == Parser_advance(Call(Parser_new, lexer)) IN
         /\ p.next.raw = "["
         /\ Returned("GenericArgumentsParser", Call(GenericArgumentsParser, p))
    /\ UNCHANGED <<out, mode, idents, lexers, scopes, serializer>>

NextGeneric == CallTypeParser \/ CallGenericArgumentsParser

\* Type paths with generic arguments, and their generic arguments, parsed.
SpecGeneric == InitGeneric /\ [][NextGeneric]_vars

\* Suffixes of an expression form.
MaxSuffixes == 2

RECURSIVE Concat(_)
Concat(ss) == IF ss = <<>> THEN <<>> ELSE Head(ss) \o Concat(Tail(ss))

\* The expressions that begin a form: a name and the expressions of
\* parse_prefix that have a node of their own.
Bases ==
    {[text |-> <<"a">>, kind |-> "StaticName"],
     [text |-> <<"[", "a", ",", " ", "1", "]">>, kind |-> "List"],
     [text |-> <<"i", "f", " ", "a", " ", "{", " ", "1", " ", "}">>, kind |-> "If"],
     [text |-> <<"w", "h", "i", "l", "e", " ", "a", " ", "{", " ", "1", " ", "}">>, kind |-> "While"]}

\* What parse_expression adds to the expression on its left: a binary
\* operator and its operand, a call, an index, a property, a postfix
\* operator, a cast.
Suffixes ==
    {[text |-> <<" ", "+", " ", "1">>, kind |-> "Binary"],
     [text |-> <<"(", "1", ")">>, kind |-> "Call"],
     [text |-> <<"[", "1", "]">>, kind |-> "Index"],
     [text |-> <<".", "b">>, kind |-> "Property"],
     [text |-> <<"?">>, kind |-> "PrefixOrPostfix"],
     [text |-> <<" ", "a", "s", " ", "b">>, kind |-> "As"]}

\* The suffix `next` leaves the expression before it as its left operand:
\* the right operand of a binary operator takes the suffixes that bind
\* tighter, and the type of a cast takes `[` and `.`.
Follows(suffix, next) ==
    /\ suffix.kind = "Binary" => next.kind = "Binary"
    /\ suffix.kind = "As" => next.kind \notin {"Index", "Property"}

SuffixSeqs ==
    {ss \in SeqsUpTo(Suffixes, MaxSuffixes) :
        \A i \in 1..Len(ss) - 1 : Follows(ss[i], ss[i + 1])}

\* The forms: a base and its suffixes; behind the prefix operator `-`, the
\* name and the suffixes that bind tighter than the prefix operator. After
\* the form comes the end of the text, or a `;`.
Forms ==
    {[prefix |-> FALSE, base |-> b, suffixes |-> ss, trailer |-> t] :
        b \in Bases, ss \in SuffixSeqs, t \in {<<>>, <<" ", ";">>}}
    \cup
    {[prefix |-> TRUE, base |-> b, suffixes |-> ss, trailer |-> t] :
        b \in {x \in Bases : x.kind = "StaticName"},
        ss \in {x \in SuffixSeqs :
                   \A i \in 1..Len(x) : x[i].kind \in {"Call", "Index", "Property", "As"}},
        t \in {<<>>, <<" ", ";">>}}

\* The text of the base and of its first k suffixes.
FormBody(form, k) ==
    form.base.text \o Concat([i \in 1..k |-> form.suffixes[i].text])

FormText(form) ==
    (IF form.prefix THEN <<"-">> ELSE <<>>)
    \o FormBody(form, Len(form.suffixes)) \o form.trailer

FormSources == {FormText(form) : form \in Forms}

InitForms == InitWith(FormSources)

NextForms == CallParseExpression \/ CallArrayLiteralExpressionParser

\* Expression forms parsed, by parse_expression and, for a text that begins
\* with `[`, by the parser of array literals.
SpecForms == InitForms /\ [][NextForms]_vars

\* Clauses after the first pair of an if-expression.
MaxClauses == 2

\* The first condition/block pair, with the kind of the condition and the
\* number of statements of the block.
FirstPairs ==
    {[text |-> <<"i", "f", " ", "a", "{", "1", "}">>, condition |-> "StaticName", statements |-> 1],
     [text |-> <<"i", "f", " ", "a", "{", "a", ";", "1", "}">>, condition |-> "StaticName", statements |-> 2],
     [text |-> <<"i", "f", " ", "1", "{", "}">>, condition |-> "Int", statements |-> 0]}

\* What follows the first pair: `else if` pairs and `else` blocks, with the
\* name of the condition and the number of statements of the block.
Clauses ==
    {[text |-> <<"e", "l", "s", "e", " ", "i", "f", " ", "b", "{", "a", "}">>,
      chained |-> TRUE, condition |-> <<"b">>, statements |-> 1],
     [text |-> <<"e", "l", "s", "e", " ", "i", "f", " ", "c", "{", "}">>,
      chained |-> TRUE, condition |-> <<"c">>, statements |-> 0],
     [text |-> <<"e", "l", "s", "e", "{", "1", "}">>, chained |-> FALSE, statements |-> 1],
     [text |-> <<"e", "l", "s", "e", "{", "}">>, chained |-> FALSE, statements |-> 0]}

ClauseSeqs == SeqsUpTo(Clauses, MaxClauses)

IfText(first, clauses) ==
    first.text \o Concat([i \in 1..Len(clauses) |-> clauses[i].text])

IfSources == {IfText(first, clauses) : first \in FirstPairs, clauses \in ClauseSeqs}

InitIf == InitWith(IfSources)

NextIf == CallParseExpression

\* If-expressions followed by `else if` pairs and `else` blocks, parsed.
SpecIf == InitIf /\ [][NextIf]_vars

\* Literals of an expression.
MaxLiterals == 2

\* The literals, by their source spelling: an integer, strings (an empty
\* one, one with a two-byte character and an escape), characters (a
\* two-byte one, an escape) and a boolean.
Literals ==
    {[text |-> <<"1">>, kind |-> "Int"],
     [text |-> <<DQUOTE, "a", DQUOTE>>, kind |-> "String"],
     [text |-> <<DQUOTE, DQUOTE>>, kind |-> "String"],
     [text |-> <<DQUOTE, "U+00E9", BACKSLASH, "n", DQUOTE>>, kind |-> "String"],
     [text |-> <<SQUOTE, "a", SQUOTE>>, kind |-> "Char"],
     [text |-> <<SQUOTE, "U+00E9", SQUOTE>>, kind |-> "Char"],
     [text |-> <<SQUOTE, BACKSLASH, "n", SQUOTE>>, kind |-> "Char"],
     [text |-> <<"t", "r", "u", "e">>, kind |-> "Bool"]}

LiteralSeqs == SeqsUpTo(Literals, MaxLiterals) \ {<<>>}

\* What comes before the literals: nothing, or a name of two bytes and `+`.
Leads == {<<>>, <<"U+00E9", " ", "+", " ">>}

\* The literals as the operands of `+`, or as the elements of a list.
LiteralForms ==
    [lead : Leads, list : BOOLEAN, literals : LiteralSeqs]

\* The text before literal i of a form.
BeforeLiteral(form, i) ==
    form.lead \o (IF form.list THEN <<"[">> ELSE <<>>)
    \o Concat([j \in 1..(i - 1) |->
                  form.literals[j].text
                  \o (IF form.list THEN <<",", " ">> ELSE <<" ", "+", " ">>)])

LiteralText(form) ==
    BeforeLiteral(form, Len(form.literals))
    \o form.literals[Len(form.literals)].text
    \o (IF form.list THEN <<"]">> ELSE <<>>)

LiteralSources == {LiteralText(form) : form \in LiteralForms}

InitLiterals == InitWith(LiteralSources)

NextLiterals == CallParseExpression

\* Expressions of literals, parsed.
SpecLiterals == InitLiterals /\ [][NextLiterals]_vars

\* Scopes of a chain, and bindings added to them.
MaxScopes == 2

MaxAdded == 3

\* The symbols of two names, and the values bound to them.
Symbols == {1, 2}

ValueConstructors ==
    {[origin |-> DUMMY_SPAN, ty |-> "uint8"], [origin |-> DUMMY_SPAN, ty |-> "string"]}

\* One scope without a parent.
InitScopes ==
    /\ lexer = Lexer_new(<<>>, EmptyInterner)
    /\ out = <<>>
    /\ mode = "new"
    /\ idents = {}
    /\ lexers = 1
    /\ parser = NoParser
    /\ serializer = NoSerializer
    /\ scopes = [chain |-> <<Scope_new>>, added |-> <<>>, found |-> None]

\* Scope::new(Some(&scope)): a scope whose parent is the innermost one.
NewScope ==
    /\ Len(scopes.chain) < MaxScopes
    /\ scopes' = [scopes EXCEPT !.chain = Append(@, Scope_new), !.found = None]
    /\ UNCHANGED <<lexer, out, mode, idents, lexers, parser, serializer>>

\* The innermost scope goes out of use.
DropScope ==
    /\ Len(scopes.chain) > 1
    /\ scopes' = [chain |-> SubSeq(scopes.chain, 1, Len(scopes.chain) - 1),
                  added |-> SelectSeq(scopes.added,
                                      LAMBDA a : a.depth < Len(scopes.chain)),
                  found |-> None]
    /\ UNCHANGED <<lexer, out, mode, idents, lexers, parser, serializer>>

\* Scope::add_symbol on the innermost scope (the scopes before it are
\* borrowed by it). `added` keeps the calls, in order.
AddSymbol ==
    /\ Len(scopes.added) < MaxAdded
    /\ \E symbol \in Symbols, value \in ValueConstructors :
           scopes' = [chain |-> [scopes.chain EXCEPT ![Len(scopes.chain)] =
                                     add_symbol(@, symbol, value)],
                      added |-> Append(scopes.added,
                                       [depth |-> Len(scopes.chain), symbol |-> symbol,
                                        value |-> value]),
                      found |-> None]
    /\ UNCHANGED <<lexer, out, mode, idents, lexers, parser, serializer>>

\* Scope::lookup on a scope of the chain; `found` keeps what it returned.
Lookup ==
    /\ \E depth \in 1..Len(scopes.chain), symbol \in Symbols :
           scopes' = [scopes EXCEPT !.found =
                          Some([depth |-> depth, symbol |-> symbol,
                                value |-> Scope_lookup(scopes.chain, depth, symbol)])]
    /\ UNCHANGED <<lexer, out, mode, idents, lexers, parser, serializer>>

NextScopes == NewScope \/ DropScope \/ AddSymbol \/ Lookup

\* Chains of scopes, bindings added and looked up.
SpecScopes == InitScopes /\ [][NextScopes]_vars

\* Calls of the serializer, and items of a list.
MaxCalls == 2

MaxListItems == 2

\* The offsets and the file ids of the spans serialized.
Offsets == {0, 3, 12}

FileIds == {0, 1}

Spans == [start : Offsets, end : Offsets, file_id : FileIds]

\* The values serialized: the booleans and the spans.
Values ==
    {[type |-> "bool", bool |-> b] : b \in BOOLEAN} \cup {[type |-> "Span", span |-> x] : x \in Spans}

\* The items of the lists serialized.
ListItems ==
    {[type |-> "bool", bool |-> TRUE],
     [type |-> "Span", span |-> DUMMY_SPAN],
     [type |-> "Span", span |-> [start |-> 3, end |-> 12, file_id |-> 0]]}

Lists == SeqsUpTo(ListItems, MaxListItems)

\* Serializer::new
InitSerializer ==
    /\ lexer = Lexer_new(<<>>, EmptyInterner)
    /\ out = <<>>
    /\ mode = "new"
    /\ idents = {}
    /\ lexers = 1
    /\ parser = NoParser
    /\ scopes = NoScopes
    /\ serializer = NoSerializer

\* The serializer after a call; `calls` keeps what was serialized, where
\* the output of the call begins, and the level before and after the call.
\* `underflow` of a call tells that the call itself decremented the level at
\* 0: the call is made with the flag of the serializer cleared, see Entered.
Serialized(ser, kind, value) ==
    [ser EXCEPT !.underflow = @ \/ serializer.underflow,
                !.calls = Append(serializer.calls,
                                 [kind |-> kind, value |-> value,
                                  from |-> Len(serializer.output),
                                  identation |-> serializer.identation,
                                  left |-> ser.identation,
                                  underflow |-> ser.underflow])]

\* The serializer a call is made with
Entered(ser) == [ser EXCEPT !.underflow = FALSE]

\* value.serialize(serializer), for a boolean or a span
Serialize ==
    /\ ~serializer.panicked
    /\ serializer.identation >= 0
    /\ Len(serializer.calls) < MaxCalls
    /\ \E value \in Values :
           serializer' = Serialized(serialize(Entered(serializer), value), "value", value)
    /\ UNCHANGED <<lexer, out, mode, idents, lexers, parser, scopes>>

\* Serializer::serialize_items
SerializeItems ==
    /\ ~serializer.panicked
    /\ serializer.identation >= 0
    /\ Len(serializer.calls) < MaxCalls
    /\ \E items \in Lists :
           serializer' =
               Serialized(serialize_items(Entered(serializer), items), "items", items)
    /\ UNCHANGED <<lexer, out, mode, idents, lexers, parser, scopes>>

\* Calls of the serializer on the nodes of a syntax tree, and the level the
\* caller has set before them.
MaxAstCalls == 1

MaxLevel == 1

\* The nodes serialized: for every type that implements Serialize, a value
\* of each variant, and for every optional field a value with and a value
\* without it.
AstSpan == [start |-> 3, end |-> 12, file_id |-> 0]

Identifier(symbol) == [type |-> "IdentifierAst", symbol |-> symbol, span |-> AstSpan]

PathOf(identifiers) == [type |-> "Path", span |-> AstSpan, identifiers |-> identifiers]

Paths == {PathOf(<<>>), PathOf(<<Identifier(1)>>), PathOf(<<Identifier(1), Identifier(2)>>)}

Pattern(variant) == [type |-> "Pattern", variant |-> variant, span |-> AstSpan]

Literal(variant, value) ==
    [type |-> "Literal", variant |-> variant, span |-> AstSpan]
    @@ CASE variant = "Boolean" -> [bool |-> value]
         [] variant = "Character" -> [char |-> value]
         [] variant = "Float" -> [f64 |-> value]
         [] variant = "Integer" -> [int |-> value]
         [] variant = "String" -> [string |-> value]

AstLiterals == {Literal("Boolean", TRUE), Literal("Integer", 12)}

AllLiterals ==
    AstLiterals
    \cup {Literal("Boolean", FALSE), Literal("Character", "a"),
          Literal("String", <<"a", " ", "b">>), Literal("String", <<>>),
          Literal("Float", [integer |-> 1, fraction |-> <<"5">>]),
          Literal("Float", [integer |-> 3, fraction |-> <<>>])}

LeafPatterns ==
    {Pattern("Rest")}
    \cup {[type |-> "Pattern", variant |-> "Literal", literal |-> l] : l \in AstLiterals}
    \cup {[type |-> "Pattern", variant |-> "Path", span |-> AstSpan, path |-> PathOf(<<Identifier(1)>>)]}

PatternLists ==
    {<<>>, <<Pattern("Rest")>>}
    \cup {<<Pattern("Rest"), [type |-> "Pattern", variant |-> "Literal", literal |-> l]>> :
             l \in AstLiterals}

StructFieldPatterns ==
    {[type |-> "StructFieldPattern", variant |-> "Rest", span |-> AstSpan]}
    \cup {[type |-> "StructFieldPattern", variant |-> "NotRest", span |-> AstSpan,
           field_name |-> Identifier(2), value_pattern |-> v] :
             v \in {None, Some(Pattern("Rest"))}}

StructFieldLists ==
    {<<>>} \cup {<<f>> : f \in StructFieldPatterns}
    \cup {<<f, [type |-> "StructFieldPattern", variant |-> "Rest", span |-> AstSpan]>> :
             f \in StructFieldPatterns}

Patterns ==
    LeafPatterns
    \cup {[type |-> "Pattern", variant |-> "Grouped", span |-> AstSpan, inner |-> Pattern("Rest")]}
    \cup {[type |-> "Pattern", variant |-> "Identifier", span |-> AstSpan,
           identifier |-> Identifier(1), pattern |-> v] : v \in {None, Some(Pattern("Rest"))}}
    \cup {[type |-> "Pattern", variant |-> "List", span |-> AstSpan, inner_patterns |-> ps] :
             ps \in PatternLists}
    \cup {[type |-> "Pattern", variant |-> "Or", span |-> AstSpan,
           left |-> Pattern("Rest"), right |-> r] : r \in LeafPatterns}
    \cup {[type |-> "Pattern", variant |-> "Struct", span |-> AstSpan,
           path |-> PathOf(<<Identifier(1)>>), fields |-> fs] : fs \in StructFieldLists}
    \cup {[type |-> "Pattern", variant |-> "Tuple", span |-> AstSpan, elements |-> ps] :
             ps \in PatternLists}
    \cup {[type |-> "Pattern", variant |-> "TupleLike", span |-> AstSpan,
           path |-> PathOf(<<Identifier(1)>>), inner_patterns |-> ps] : ps \in PatternLists}

ImportPaths ==
    {[type |-> "ImportPath", left |-> PathOf(<<Identifier(1), Identifier(2)>>),
      as |-> as, star_span |-> star] :
        as \in {None, Some(Identifier(2))},
        star \in {None, Some([type |-> "Span", span |-> AstSpan])}}

Visibilities ==
    {[type |-> "Visibility", some |-> FALSE], [type |-> "Visibility", some |-> TRUE, v |-> AstSpan]}

Imports ==
    {[type |-> "Item", variant |-> "Import", visibility |-> v, path |-> p] :
        v \in Visibilities, p \in ImportPaths}

AstSymbols == {[type |-> "Symbol", symbol |-> 1], [type |-> "Symbol", symbol |-> 2]}

\* The elements of a set, as a list.
RECURSIVE Listed(_)
Listed(set) ==
    IF set = {} THEN <<>>
    ELSE LET first == CHOOSE element \in set : TRUE
         IN <<first>> \o Listed(set \ {first})

\* Types: the path `a`, and a type of every other variant.
TypePathSegmentOf(generic_arguments) ==
    [type |-> "TypePathSegment", span |-> AstSpan, path |-> PathOf(<<Identifier(1)>>),
     generic_arguments |-> generic_arguments]

TypePathOf(segments) == [type |-> "TypePath", span |-> AstSpan, segments |-> segments]

PlainTypePath == TypePathOf(<<TypePathSegmentOf(None)>>)

PlainType == [type |-> "TypeAst", variant |-> "Path", path |-> PlainTypePath]

AstGenericArguments ==
    {[type |-> "GenericArgument", variant |-> "Type", ty |-> PlainType],
     [type |-> "GenericArgument", variant |-> "AssociatedType", name |-> Identifier(2),
      value |-> PlainType]}

AstTypePathSegments ==
    {TypePathSegmentOf(None), TypePathSegmentOf(Some(<<>>))}
    \cup {TypePathSegmentOf(Some(<<g>>)) : g \in AstGenericArguments}

AstTypePaths ==
    {TypePathOf(<<>>), PlainTypePath}
    \cup {TypePathOf(<<TypePathSegmentOf(None), segment>>) : segment \in AstTypePathSegments}

AstTypes ==
    {[type |-> "TypeAst", variant |-> "Path", path |-> path] : path \in AstTypePaths}
    \cup {[type |-> "TypeAst", variant |-> "Function", span |-> AstSpan,
           parameter_types |-> ps, return_type |-> PlainType] : ps \in {<<>>, <<PlainType>>}}
    \cup {[type |-> "TypeAst", variant |-> "Parenthesized", span |-> AstSpan, inner |-> PlainType],
          [type |-> "TypeAst", variant |-> "TraitObject", span |-> AstSpan,
           bounds |-> <<PlainTypePath, PlainTypePath>>],
          [type |-> "TypeAst", variant |-> "WithQualifiedPath", span |-> AstSpan,
           left |-> PlainType, right |-> PlainTypePath,
           segments |-> <<TypePathSegmentOf(None)>>]}
    \cup {[type |-> "TypeAst", variant |-> "Tuple", span |-> AstSpan, element_types |-> ts] :
             ts \in {<<>>, <<PlainType, PlainType>>}}

\* Operators
BinaryOperators ==
    {[type |-> "BinaryOperator", raw |-> raw, span |-> AstSpan] : raw \in {"Plus", "PercentEq"}}

PrefixOperators == {[type |-> "PrefixOperator", raw |-> "Bang", span |-> AstSpan]}

PostfixOperators == {[type |-> "PostfixOperator", raw |-> "QuestionMark", span |-> AstSpan]}

\* Expressions and statements: the expressions without parts, the statements
\* made of them, and an expression of every other variant.
Expression(variant) == [type |-> "UntypedExpression", variant |-> variant, span |-> AstSpan]

NameExpression ==
    [type |-> "UntypedExpression", variant |-> "Identifier", symbol |-> Identifier(1)]

IntegerExpression ==
    [type |-> "UntypedExpression", variant |-> "Literal", literal |-> Literal("Integer", 12)]

Bool(b) == [type |-> "bool", bool |-> b]

Statements ==
    {[type |-> "Statement", variant |-> "Break", span |-> AstSpan],
     [type |-> "Statement", variant |-> "Continue", span |-> AstSpan],
     [type |-> "Statement", variant |-> "Return", expression |-> IntegerExpression],
     [type |-> "Statement", variant |-> "Defer", call |-> NameExpression]}
    \cup {[type |-> "Statement", variant |-> "Expression", expression |-> NameExpression,
           has_semicolon |-> Bool(b)] : b \in BOOLEAN}
    \cup {[type |-> "Statement", variant |-> "Let", pattern |-> Pattern("Rest"),
           value |-> IntegerExpression, ty |-> ty] : ty \in {None, Some(PlainType)}}

ReturnStatement ==
    [type |-> "Statement", variant |-> "Return", expression |-> IntegerExpression]

Blocks ==
    {<<>>, <<ReturnStatement>>,
     <<[type |-> "Statement", variant |-> "Break", span |-> AstSpan], ReturnStatement>>}

IfBlocks ==
    {[type |-> "(UntypedExpression, Vec<Statement>)", condition |-> NameExpression,
      block |-> block] : block \in Blocks}

MatchExpressionItems ==
    {[type |-> "MatchExpressionItem", left |-> left, right |-> IntegerExpression] :
        left \in {Pattern("Rest"),
                  [type |-> "Pattern", variant |-> "Literal", literal |-> Literal("Boolean", TRUE)]}}

StructExpressionItems ==
    {[type |-> "StructExpressionItem", name |-> Identifier(1), value |-> value] :
        value \in {None, Some(IntegerExpression)}}

JustFunctionParameters ==
    {[type |-> "JustFunctionParameter", name |-> Identifier(1), ty |-> PlainType,
      default_value |-> default] : default \in {None, Some(IntegerExpression)}}

Expressions ==
    {NameExpression,
     [type |-> "UntypedExpression", variant |-> "Identifier", symbol |-> [type |-> "Symbol", symbol |-> 1]],
     Expression("As") @@ [left |-> NameExpression, right |-> PlainType],
     Expression("Parenthesized") @@ [inner |-> IntegerExpression],
     Expression("FieldAccess") @@ [left |-> NameExpression, right |-> Identifier(2)],
     Expression("GenericArguments")
         @@ [left |-> NameExpression,
             generic_arguments |-> <<[type |-> "GenericArgument", variant |-> "Type", ty |-> PlainType]>>],
     Expression("While") @@ [condition |-> NameExpression, body |-> <<ReturnStatement>>]}
    \cup {[type |-> "UntypedExpression", variant |-> "Literal", literal |-> l] : l \in AstLiterals}
    \cup {Expression("Binary") @@ [left |-> NameExpression, operator |-> o, right |-> IntegerExpression] :
             o \in BinaryOperators}
    \cup {Expression("Prefix") @@ [inner |-> NameExpression, operator |-> o] : o \in PrefixOperators}
    \cup {Expression("Postfix") @@ [inner |-> NameExpression, operator |-> o] : o \in PostfixOperators}
    \cup {Expression("Call") @@ [left |-> NameExpression, arguments |-> as] :
             as \in {<<>>, <<IntegerExpression, NameExpression>>}}
    \cup {Expression("List") @@ [elements |-> es] : es \in {<<>>, <<IntegerExpression>>}}
    \cup {Expression("Tuple") @@ [elements |-> es] : es \in {<<>>, <<IntegerExpression, NameExpression>>}}
    \cup {Expression("StatementsBlock") @@ [block |-> block] : block \in Blocks}
    \cup {Expression("Struct") @@ [left |-> NameExpression, fields |-> fs] :
             fs \in {<<>>} \cup {<<f>> : f \in StructExpressionItems}}
    \cup {Expression("Match") @@ [expression |-> NameExpression, block |-> items] :
             items \in {<<>>} \cup {<<i>> : i \in MatchExpressionItems}}
    \cup {Expression("If") @@ [if_blocks |-> bs, else |-> else] :
             bs \in {<<>>, Listed(IfBlocks)}, else \in {None, Some(<<ReturnStatement>>)}}
    \cup {Expression("Function") @@ [parameters |-> ps, return_type |-> ty, block |-> <<ReturnStatement>>] :
             ps \in {<<>>, Listed(JustFunctionParameters)},
             ty \in {None, Some(PlainType)}}

\* The parts of items
GenericParameters ==
    {[type |-> "GenericParameter", name |-> Identifier(1), bounds |-> None,
      default_value |-> None],
     [type |-> "GenericParameter", name |-> Identifier(1), bounds |-> Some(<<>>),
      default_value |-> Some(PlainType)],
     [type |-> "GenericParameter", name |-> Identifier(1), bounds |-> Some(<<PlainTypePath>>),
      default_value |-> None]}

WhereClauseItems ==
    {[type |-> "WhereClauseItem", variant |-> "Eq", left |-> PlainType, right |-> PlainType],
     [type |-> "WhereClauseItem", variant |-> "Satisfies", ty |-> PlainType,
      bounds |-> <<PlainTypePath>>]}

FunctionParameters ==
    {[type |-> "FunctionParameter", variant |-> "Just", parameter |-> parameter] :
        parameter \in JustFunctionParameters}
    \cup {[type |-> "FunctionParameter", variant |-> "Self_",
           parameter |-> [self_span |-> [type |-> "Span", span |-> AstSpan], ty |-> ty]] :
             ty \in {None, Some(PlainType)}}

\* The optional parts of an item: every one missing, every one present.
Missing ==
    [visibility |-> [type |-> "Visibility", some |-> FALSE],
     generic_parameters |-> None, where_clause |-> None, return_type |-> None, body |-> None,
     bounds |-> None, value |-> None, trait |-> None]

Present ==
    [visibility |-> [type |-> "Visibility", some |-> TRUE, v |-> AstSpan],
     generic_parameters |-> Some(<<CHOOSE g \in GenericParameters : ~g.bounds.some>>),
     where_clause |-> Some(<<CHOOSE w \in WhereClauseItems : w.variant = "Eq">>),
     return_type |-> Some(PlainType),
     body |-> Some(<<ReturnStatement>>),
     bounds |-> Some(<<PlainTypePath>>),
     value |-> Some(PlainType),
     trait |-> Some(PlainType)]

Optionals == {Missing, Present}

Functions ==
    {[type |-> "Function", visibility |-> o.visibility, name |-> Identifier(1),
      generic_parameters |-> o.generic_parameters,
      parameters |-> IF o = Missing THEN <<>> ELSE Listed(FunctionParameters),
      return_type |-> o.return_type, where_clause |-> o.where_clause, body |-> o.body] :
        o \in Optionals}

TypeAliases ==
    {[type |-> "TypeAlias", name |-> Identifier(1),
      generic_parameters |-> o.generic_parameters, bounds |-> o.bounds, value |-> o.value] :
        o \in Optionals}

TraitItems ==
    {[type |-> "TraitItem", variant |-> "AssociatedFunction", function |-> f] : f \in Functions}
    \cup {[type |-> "TraitItem", variant |-> "TypeAlias", alias |-> a] : a \in TypeAliases}

StructFields ==
    {[type |-> "StructField", visibility |-> v, name |-> Identifier(1), ty |-> PlainType] :
        v \in Visibilities}

\* The items of a trait or an implementation: a function and a type alias.
SomeTraitItems ==
    <<CHOOSE i \in TraitItems : i.variant = "AssociatedFunction" /\ ~i.function.body.some,
      CHOOSE i \in TraitItems : i.variant = "TypeAlias" /\ ~i.alias.value.some>>

TupleFields == {[type |-> "TupleField", visibility |-> v, ty |-> PlainType] : v \in Visibilities}

EnumItems ==
    {[type |-> "EnumItem", variant |-> "Just", name |-> Identifier(1)]}
    \cup {[type |-> "EnumItem", variant |-> "Struct", name |-> Identifier(1), fields |-> fs] :
             fs \in {<<>>, Listed(StructFields)}}
    \cup {[type |-> "EnumItem", variant |-> "Tuple", name |-> Identifier(1), fields |-> fs] :
             fs \in {<<>>, Listed(TupleFields)}}

\* An item of a variant that has a visibility, a name and a list of parts:
\* one without the optional parts and with an empty list, one with them and
\* with the list `parts`.
Declared(variant, list, parts) ==
    {[type |-> "Item", variant |-> variant, visibility |-> o.visibility, name |-> Identifier(2),
      generic_parameters |-> o.generic_parameters, where_clause |-> o.where_clause]
     @@ (list :> IF o = Missing THEN <<>> ELSE parts) : o \in Optionals}

Items ==
    Imports
    \cup Declared("Enum", "items", Listed(EnumItems))
    \cup Declared("Struct", "fields", Listed(StructFields))
    \cup Declared("TupleLikeStruct", "fields", Listed(TupleFields))
    \cup Declared("Trait", "items", SomeTraitItems)
    \cup {[type |-> "Item", variant |-> "Impl", generic_parameters |-> o.generic_parameters,
           ty |-> PlainType, trait |-> o.trait, where_clause |-> o.where_clause,
           items |-> IF o = Missing THEN <<>> ELSE SomeTraitItems] : o \in Optionals}
    \cup {[type |-> "Item", variant |-> "Function", function |-> f] : f \in Functions}
    \cup {[type |-> "Item", variant |-> "TypeAlias", alias |-> a] : a \in TypeAliases}

\* The items of the modules: none, one import, two imports, and an item of
\* every variant.
RenamingImport ==
    CHOOSE i \in Imports : ~i.visibility.some /\ i.path.as.some /\ ~i.path.star_span.some

EveryItem ==
    <<CHOOSE i \in Items : i.variant = "Enum" /\ ~i.where_clause.some,
      CHOOSE i \in Items : i.variant = "Function" /\ ~i.function.body.some,
      CHOOSE i \in Items : i.variant = "Impl" /\ i.trait.some,
      CHOOSE i \in Items : i.variant = "Struct" /\ i.where_clause.some,
      CHOOSE i \in Items : i.variant = "Trait" /\ ~i.where_clause.some,
      CHOOSE i \in Items : i.variant = "TupleLikeStruct" /\ i.where_clause.some,
      CHOOSE i \in Items : i.variant = "TypeAlias" /\ i.alias.value.some,
      CHOOSE i \in Items : i.variant = "Import" /\ i.path.as.some /\ i.visibility.some>>

ItemLists == {<<>>, EveryItem, <<RenamingImport>>, <<RenamingImport, RenamingImport>>}

Modules ==
    {[type |-> "Module", path_str |-> [type |-> "str", str |-> <<"a", ".", "r", "y">>],
      items |-> is] : is \in ItemLists}

AstNodes ==
    {Identifier(1), Bool(TRUE), [type |-> "Span", span |-> AstSpan],
     [type |-> "str", str |-> <<"a", ".", "r", "y">>]}
    \cup AstSymbols \cup Paths \cup AllLiterals \cup Patterns \cup StructFieldPatterns
    \cup AstTypePathSegments \cup AstTypePaths \cup AstGenericArguments \cup AstTypes
    \cup BinaryOperators \cup PrefixOperators \cup PostfixOperators
    \cup Statements \cup IfBlocks \cup MatchExpressionItems \cup StructExpressionItems
    \cup Expressions \cup GenericParameters \cup WhereClauseItems \cup JustFunctionParameters
    \cup FunctionParameters \cup Functions \cup TypeAliases \cup TraitItems \cup StructFields
    \cup TupleFields \cup EnumItems \cup ImportPaths \cup Visibilities \cup Items \cup Modules

\* serialize_ast has returned: its serializer is gone.
Finished == serializer.calls # <<>> /\ serializer.calls[1].kind = "serialize_ast"

\* The serializer can be used: serialize_ast has not consumed it, no call
\* has panicked, and the level is not usize::MAX, where write_identation
\* writes more tabs than a String holds.
Usable == ~Finished /\ ~serializer.panicked /\ serializer.identation >= 0

\* value.serialize(serializer), for a node
SerializeNode ==
    /\ Usable
    /\ Len(serializer.calls) < MaxAstCalls
    /\ \E value \in AstNodes :
           serializer' = Serialized(serialize(Entered(serializer), value), "value", value)
    /\ UNCHANGED <<lexer, out, mode, idents, lexers, parser, scopes>>

\* Serializer::increment_indentation, called by the user of the serializer
\* to set the level the values are serialized at
IncrementIndentation ==
    /\ ~Finished
    /\ ~serializer.panicked
    /\ serializer.calls = <<>>
    /\ serializer.identation < MaxLevel
    /\ serializer' = increment_indentation(serializer)
    /\ UNCHANGED <<lexer, out, mode, idents, lexers, parser, scopes>>

\* Serializer::decrement_indentation, called by the user of the serializer
\* to set the level the values are serialized at.
\* At level 0 the subtraction overflows: the call panics in a build with
\* overflow checks, and the level wraps to usize::MAX in a build without.
DecrementIndentation ==
    /\ Usable
    /\ serializer.calls = <<>>
    /\ \/ serializer' = decrement_indentation(serializer)
       \/ /\ serializer.identation = 0
          /\ serializer' = [serializer EXCEPT !.panicked = TRUE, !.underflow = TRUE]
    /\ UNCHANGED <<lexer, out, mode, idents, lexers, parser, scopes>>

\* The strings a user writes
UserStrings == {<<"x">>, <<"x", "y">>}

\* Serializer::write, called by the user of the serializer
Write ==
    /\ Usable
    /\ Len(serializer.calls) < MaxAstCalls
    /\ \E str \in UserStrings :
           serializer' = Serialized(write(Entered(serializer), str), "write", str)
    /\ UNCHANGED <<lexer, out, mode, idents, lexers, parser, scopes>>

\* Serializer::write_newline, called by the user of the serializer
WriteNewline ==
    /\ Usable
    /\ Len(serializer.calls) < MaxAstCalls
    /\ serializer' = Serialized(write_newline(Entered(serializer)), "write_newline", <<>>)
    /\ UNCHANGED <<lexer, out, mode, idents, lexers, parser, scopes>>

\* Serializer::write_identation, called by the user of the serializer
WriteIdentation ==
    /\ Usable
    /\ Len(serializer.calls) < MaxAstCalls
    /\ serializer' =
           Serialized(write_identation(Entered(serializer)), "write_identation", <<>>)
    /\ UNCHANGED <<lexer, out, mode, idents, lexers, parser, scopes>>

\* serialize_ast of a module
SerializeAst ==
    /\ serializer = NoSerializer
    /\ \E module \in Modules :
           serializer' = Serialized(serialize_ast(module), "serialize_ast", module)
    /\ UNCHANGED <<lexer, out, mode, idents, lexers, parser, scopes>>

NextSerializer ==
    \/ Serialize
    \/ SerializeItems
    \/ IncrementIndentation
    \/ DecrementIndentation
    \/ Write
    \/ WriteNewline
    \/ WriteIdentation

\* Booleans, spans and lists serialized one after the other, between the
\* calls a user makes of the serializer.
SpecSerializer == InitSerializer /\ [][NextSerializer]_vars

NextAst ==
    \/ SerializeNode
    \/ IncrementIndentation
    \/ DecrementIndentation
    \/ Write
    \/ WriteNewline
    \/ WriteIdentation
    \/ SerializeAst

\* AstNodes of a syntax tree serialized one after the other, and modules
\* serialized by serialize_ast.
SpecAst == InitSerializer /\ [][NextAst]_vars

\* The parts of a function item: the generic parameters, the arguments, the
\* return type, the where clause and what follows the signature: a
\* semicolon, a block, a block and a semicolon.
FunctionGenerics ==
    {[text |-> <<>>, some |-> FALSE],
     [text |-> <<"[", "a", "]">>, some |-> TRUE]}

FunctionArguments ==
    [plain |-> [text |-> <<"a", ":", " ", "b">>, default |-> FALSE],
     default |-> [text |-> <<"c", ":", " ", "b", " ", "=", " ", "1">>, default |-> TRUE]]

FunctionArgumentSeqs ==
    {<<>>, <<FunctionArguments.plain>>, <<FunctionArguments.default>>,
     <<FunctionArguments.plain, FunctionArguments.default>>}

FunctionReturnTypes ==
    {[text |-> <<>>, some |-> FALSE], [text |-> <<":", " ", "b">>, some |-> TRUE]}

FunctionWhereClauses ==
    {[text |-> <<>>, some |-> FALSE],
     [text |-> <<" ", "w", "h", "e", "r", "e", " ", "a", " ", "=", " ", "b">>, some |-> TRUE]}

FunctionEnds ==
    {[text |-> <<";">>, body |-> FALSE, statements |-> 0, left |-> "EndOfFile"],
     [text |-> <<" ", "{", " ", "1", " ", "}">>, body |-> TRUE, statements |-> 1, left |-> "EndOfFile"],
     [text |-> <<" ", "{", "}", ";">>, body |-> TRUE, statements |-> 0, left |-> ";"]}

FunctionEntries ==
    [generics : FunctionGenerics, arguments : FunctionArgumentSeqs,
     return_type : FunctionReturnTypes, where : FunctionWhereClauses, end : FunctionEnds]

\* fun a generics ( arguments ) return-type where-clause end
FunctionText(e) ==
    <<"f", "u", "n", " ", "a">> \o e.generics.text \o <<"(">> \o CommaSeparated(e.arguments)
        \o <<")">> \o e.return_type.text \o e.where.text \o e.end.text

FunctionSources == {FunctionText(e) : e \in FunctionEntries}

InitFunctions == InitWith(FunctionSources)

\* Parser::parse_function, for a private function.
CallParseFunction ==
    /\ parser = NoParser
    /\ Returned("parse_function",
                Call2(Parser_parse_function, Call(Parser_new, lexer), Visibility_private))
    /\ UNCHANGED <<out, mode, idents, lexers, scopes, serializer>>

NextFunctions == CallParseFunction

\* Function items, parsed.
SpecFunctions == InitFunctions /\ [][NextFunctions]_vars

\* Items and stray tokens of a module.
MaxItems == 3

\* The pieces of the modules: items, and tokens that begin no item.
\* `item` tells the items, `name` is the offset of the name of the item in
\* the piece.
Pieces ==
    {[text |-> <<"f", "u", "n", " ", "a", "(", ")", ";", LF>>, item |-> TRUE, kind |-> "Function"],
     [text |-> <<"p", "u", "b", " ", "f", "u", "n", " ", "b", "(", "a", ":", " ", "b", ")",
                 " ", "{", " ", "a", " ", "}", LF>>, item |-> TRUE, kind |-> "Function"],
     [text |-> <<"/", "/", "/", "d", LF, "i", "m", "p", "o", "r", "t", " ", "a", ".", "b", ";", LF>>,
      item |-> TRUE, kind |-> "Import"],
     [text |-> <<"+", " ">>, item |-> FALSE, kind |-> "+"],
     [text |-> <<"1", " ">>, item |-> FALSE, kind |-> "IntegerLiteral"]}

PieceSeqs == SeqsUpTo(Pieces, MaxItems)

ModuleText(ps) == Concat([i \in 1..Len(ps) |-> ps[i].text])

ModuleSources == {ModuleText(ps) : ps \in PieceSeqs}

InitItems == InitWith(ModuleSources)

\* The items of a text are parsed: the doc comments before the first item,
\* then ItemsParser.
CallItemsParser ==
    /\ parser = NoParser
    /\ Let(Call(consume_docstring, Call(Parser_new, lexer)), LAMBDA first :
           Returned("ItemsParser", Call2(ItemsParser, first.p, first.v)))
    /\ UNCHANGED <<out, mode, idents, lexers, scopes, serializer>>

NextItems == CallItemsParser

\* Modules parsed.
SpecItems == InitItems /\ [][NextItems]_vars

\* Tokens of a text given to the type parser or to the item parser.
MaxStray == 2

\* Tokens that begin a type or an item, and tokens that begin neither.
StrayFrags ==
    {<<"+">>, <<"1">>, <<"a">>, <<"(">>, <<")">>, <<"[">>, <<";">>, <<" ">>,
     <<"d", "y", "n">>, <<"f", "u", "n">>, <<"i", "m", "p", "l">>}

StraySources == Texts(StrayFrags, MaxStray)

InitStray == InitWith(StraySources)

NextStray == CallTypeParser \/ CallItemsParser

\* Texts that begin with any token, given to the type parser or to the
\* item parser.
SpecStray == InitStray /\ [][NextStray]_vars

\* One text scanned by one scanner.
NextScan == CallNextToken \/ CallNextNoComments

\* The same over texts with string literals, whose buffer the user takes.
NextStrings == CallNextToken \/ CallNextNoComments \/ CallScannedString

Next == CallNextToken \/ CallNextNoComments \/ NewLexer

Spec == Init /\ [][NextStrings]_vars

SpecPunct == InitPunct /\ [][NextScan]_vars

SpecLit == InitLit /\ [][NextScan]_vars

SpecEsc == InitEsc /\ [][NextStrings]_vars

\* Texts of identifiers, scanned one after another with one interner.
SpecIdent == InitIdent /\ [][Next]_vars

\* The characters the operator tokens are written with.
OperatorChars == {"+", "-", "*", "/", "=", "!", ">", "<", "|", "&", "%", "~", "?"}

\* The token a text of one or two characters of punctuation spells
\* (Token![..]).
Spelled(text) == IF Len(text) = 1 THEN text[1] ELSE text[1] \o text[2]

\* The spellings of the tokens that one of the three conversions accepts.
OperatorSpellings ==
    {text \in {<<c>> : c \in OperatorChars} \cup (OperatorChars \X OperatorChars) :
        \/ RawBinaryOperator_from(Spelled(text)) # "unreachable!()"
        \/ RawPrefixOperator_from(Spelled(text)) # "unreachable!()"
        \/ RawPostfixOperator_from(Spelled(text)) # "unreachable!()"}

\* What follows the operator in the text: nothing, or an operand.
OperatorTails == {<<>>, <<" ", "a">>, <<"1">>}

OperatorSources == {text \o tail : text \in OperatorSpellings, tail \in OperatorTails}

InitOperators == InitWith(OperatorSources)

\* Texts that begin with an operator token, scanned.
SpecOperators == InitOperators /\ [][NextScan]_vars

\* ------------------------------------------------------------------------
\* Properties
\*
\* In the properties, end-of-file is the scanner's end-of-file: the end of
\* the text, or a U+0000 character, which eof() takes for it.
\* ------------------------------------------------------------------------

\* The character at index k of a text, NUL outside it.
At(source, k) == IF k >= 1 /\ k <= Len(source) THEN source[k] ELSE NUL

\* The length of a text in bytes.
ByteLen(source) == ByteOffset(source, Len(source) + 1)

\* Byte offset of index k of the text being scanned.
Off(k) == ByteOffset(lexer.source, k)

\* The index of the character at a byte offset, 0 when there is none.
IndexAt(source, off) ==
    LET ks == {k \in 1..(Len(source) + 1) : ByteOffset(source, k) = off} IN
    IF ks = {} THEN 0 ELSE CHOOSE k \in ks : TRUE

RECURSIVE SkipWhitespace(_, _)
SkipWhitespace(source, k) ==
    IF k <= Len(source) /\ is_whitespace(source[k]) THEN SkipWhitespace(source, k + 1) ELSE k

\* The index of the first character of the token call i scans: the first
\* character that is not whitespace from where the call starts (0 when the
\* call starts past the text).
TokenIdx(i) ==
    LET k == IndexAt(lexer.source, out[i].from) IN
    IF k = 0 THEN 0 ELSE SkipWhitespace(lexer.source, k)

\* The first index from k on whose character is in `stops`, or Len + 1.
RECURSIVE FirstOf(_, _, _)
FirstOf(source, k, stops) ==
    IF k > Len(source) \/ source[k] \in stops THEN k ELSE FirstOf(source, k + 1, stops)

Calls == 1..Len(out)

\* C1: once a call has returned EndOfFile, every later call returns the same
\* EndOfFile token, and the location stays where that call left it.
EndOfFileIsStable ==
    \A i \in Calls : \A j \in Calls :
        (i < j /\ out[i].tok.raw = "EndOfFile")
            => /\ out[j].tok = out[i].tok
               /\ out[j].from = out[i].to
               /\ out[j].to = out[i].to

\* C1: EndOfFile was returned twice, after a token that is not EndOfFile.
EndOfFileReturnedTwice ==
    /\ Len(out) >= 3
    /\ out[1].tok.raw # "EndOfFile"
    /\ out[Len(out) - 1].tok.raw = "EndOfFile"
    /\ out[Len(out)].tok.raw = "EndOfFile"

\* C2: every call that returns a token other than EndOfFile moves the
\* location forward, and at the latest the call number Len(source) + 1
\* returns EndOfFile.
ScanningTerminates ==
    /\ \A i \in Calls : out[i].tok.raw # "EndOfFile" => out[i].to > out[i].from
    /\ Len(out) > Len(lexer.source) => out[Len(lexer.source) + 1].tok.raw = "EndOfFile"

\* C2: a text with a string literal that is never closed and another
\* lexical error was scanned to EndOfFile.
MalformedTextScanned ==
    /\ \E i \in Calls : out[i].tok.raw = Error("UnterminatedStringLiteral")
    /\ \E i \in Calls : IsErrorToken(out[i].tok) /\ out[i].tok.raw # Error("UnterminatedStringLiteral")
    /\ Len(out) >= 3
    /\ out[Len(out)].tok.raw = "EndOfFile"

\* C3: every EndOfFile token has the span of length 1 that starts at the
\* byte length of the text, and the location never exceeds that length.
EndOfFileAtEndOfText ==
    /\ \A i \in Calls :
           out[i].tok.raw = "EndOfFile"
               => out[i].tok.span = Span(ByteLen(lexer.source), ByteLen(lexer.source) + 1)
    /\ lexer.location <= ByteLen(lexer.source)

\* Call i scans a string literal that a newline or end-of-file ends, with
\* no escape and no closing quote before it.
StringCutAt(i) ==
    LET p == TokenIdx(i) IN
    /\ p > 0
    /\ At(lexer.source, p) = DQUOTE
    /\ At(lexer.source, FirstOf(lexer.source, p + 1, {DQUOTE, LF, BACKSLASH, NUL})) \in {LF, NUL}

\* C4: a string literal cut by a newline or end-of-file, with no escape
\* before it, is the one token Error(UnterminatedStringLiteral) from the
\* opening quote to the offset of the newline or end-of-file; the scanner
\* stops at that offset and the next token starts at or after it.
UnterminatedStringIsOneError ==
    \A i \in Calls :
        StringCutAt(i) =>
            LET p == TokenIdx(i)
                q == FirstOf(lexer.source, p + 1, {DQUOTE, LF, BACKSLASH, NUL})
            IN  /\ out[i].tok = Token(Error("UnterminatedStringLiteral"), Span(Off(p), Off(q)))
                /\ out[i].to = Off(q)
                /\ i < Len(out) => /\ out[i + 1].from = Off(q)
                                   /\ out[i + 1].tok.span.start >= Off(q)

\* C4: a string literal with text in it was cut by a newline, and the token
\* after it was scanned.
StringCutByNewline ==
    \E i \in Calls :
        /\ StringCutAt(i)
        /\ i < Len(out)
        /\ LET p == TokenIdx(i)
               q == FirstOf(lexer.source, p + 1, {DQUOTE, LF, BACKSLASH, NUL})
           IN  q > p + 1 /\ At(lexer.source, q) = LF

\* Call i scans a literal whose first escape sequence is \x, \u or \U; the
\* index of its backslash (0 when there is none).
HexEscapeIdx(i) ==
    LET p == TokenIdx(i)
        e == FirstOf(lexer.source, p + 1, {DQUOTE, SQUOTE, LF, BACKSLASH, NUL})
    IN  IF /\ p > 0
           /\ At(lexer.source, p) \in {DQUOTE, SQUOTE}
           /\ At(lexer.source, e) = BACKSLASH
           /\ At(lexer.source, e + 1) \in {"x", "u", "U"}
        THEN e ELSE 0

\* What is wrong first in the escape sequence whose backslash is at index e:
\* the error kind and the index of the offending character (kind "" when the
\* bracket, the digits and the closing bracket are all there).
FirstEscapeFault(source, e) ==
    LET fl == At(source, e + 1)
        n == CASE fl = "x" -> 2 [] fl = "u" -> 4 [] fl = "U" -> 8
        flavour == IF fl = "x" THEN "ByteEscapeSequence" ELSE "UnicodeEscapeSequence"
        bad == {j \in 0..(n - 1) : ~is_ascii_hexdigit(At(source, e + 3 + j))}
    IN  IF At(source, e + 2) # "{"
        THEN [kind |-> "ExpectedOpenBracketIn" \o flavour, at |-> e + 2]
        ELSE IF bad # {}
        THEN [kind |-> "ExpectedDigitIn" \o flavour,
              at |-> e + 3 + (CHOOSE j \in bad : \A k \in bad : j <= k)]
        ELSE IF At(source, e + 3 + n) # "}"
        THEN [kind |-> "ExpectedCloseBracketIn" \o flavour, at |-> e + 3 + n]
        ELSE [kind |-> "", at |-> 0]

\* C5: when a bracket or one of the 2, 4 or 8 digits of a \x, \u or \U
\* escape is missing, the token is the error of that kind (expected open
\* bracket, expected digit, expected close bracket) for the flavour, with
\* the span of length 1 at the offending character.
EscapeFaultIsReportedInPlace ==
    \A i \in Calls :
        HexEscapeIdx(i) > 0 =>
            LET f == FirstEscapeFault(lexer.source, HexEscapeIdx(i)) IN
            f.kind # "" => out[i].tok = Token(Error(f.kind), Span(Off(f.at), Off(f.at) + 1))

\* C5: the escape \x{} was scanned: its digit error is at the closing
\* bracket, right after the opening one.
EmptyByteEscapeScanned ==
    \E i \in Calls :
        /\ HexEscapeIdx(i) > 0
        /\ LET e == HexEscapeIdx(i) IN
               /\ At(lexer.source, e + 1) = "x"
               /\ At(lexer.source, e + 2) = "{"
               /\ At(lexer.source, e + 3) = "}"
               /\ out[i].tok.raw = Error("ExpectedDigitInByteEscapeSequence")

\* The number written by the n hexadecimal digits from index k on, not
\* multiplied further once above char::MAX.
RECURSIVE HexNumber(_, _, _, _)
HexNumber(source, k, n, value) ==
    IF n = 0 THEN value
    ELSE HexNumber(source, k + 1, n - 1,
                   IF value > CharMax THEN value ELSE value * 16 + HexVal(source[k]))

\* The length in characters of the well-formed escape sequence whose
\* backslash is at index k, 0 when it is malformed.
EscapeLen(source, k) ==
    LET c == At(source, k + 1)
        n == CASE c = "x" -> 2 [] c = "u" -> 4 [] c = "U" -> 8 [] OTHER -> 0
    IN  IF c \in {"b", "f", "n", "r", "t", SQUOTE, DQUOTE, BACKSLASH} THEN 2
        ELSE IF /\ n > 0
                /\ At(source, k + 2) = "{"
                /\ \A j \in 0..(n - 1) : is_ascii_hexdigit(At(source, k + 3 + j))
                /\ At(source, k + 3 + n) = "}"
                /\ LET v == HexNumber(source, k + 3, n, 0) IN
                       v <= CharMax /\ ~(v >= 55296 /\ v <= 57343)
        THEN n + 4
        ELSE 0

\* What lies between the opening quote of a char literal and its end, read
\* from index k on: how it ends ("closed" by a quote, "cut" by a newline or
\* end-of-file, "malformed" at an escape sequence that is not well-formed),
\* the index where, and the number of logical characters before that.
RECURSIVE CharContents(_, _, _)
CharContents(source, k, count) ==
    LET c == At(source, k) IN
    IF c = SQUOTE THEN [ends |-> "closed", at |-> k, count |-> count]
    ELSE IF c \in {LF, NUL} THEN [ends |-> "cut", at |-> k, count |-> count]
    ELSE IF c = BACKSLASH
    THEN IF EscapeLen(source, k) = 0
         THEN [ends |-> "malformed", at |-> k, count |-> count]
         ELSE CharContents(source, k + EscapeLen(source, k), count + 1)
    ELSE CharContents(source, k + 1, count + 1)

\* Call i scans a char literal.
CharLiteralAt(i) == TokenIdx(i) > 0 /\ At(lexer.source, TokenIdx(i)) = SQUOTE

\* The claim for a char literal closed on its line; u is CharContents of it.
ClosedCharLiteralToken(i, u) ==
    LET span == Span(Off(TokenIdx(i)), Off(u.at) + 1) IN
    out[i].tok =
        IF u.count = 1 THEN Token("CharLiteral", span)
        ELSE IF u.count = 0 THEN Token(Error("EmptyCharLiteral"), span)
        ELSE Token(Error("MoreThanOneCharInCharLiteral"), span)

\* C6 as stated: a closed char literal is CharLiteral, EmptyCharLiteral or
\* MoreThanOneCharInCharLiteral by the number of its logical characters, and
\* a char literal with no quote before the newline or end-of-file is
\* Error(UnterminatedCharLiteral), whatever lies before the newline or
\* end-of-file.
CharLiteralByCountOrUnterminated ==
    \A i \in Calls :
        CharLiteralAt(i) =>
            LET p == TokenIdx(i)
                u == CharContents(lexer.source, p + 1, 0)
                q == FirstOf(lexer.source, p + 1, {SQUOTE, LF, NUL})
            IN  /\ u.ends = "closed" => ClosedCharLiteralToken(i, u)
                /\ At(lexer.source, q) \in {LF, NUL}
                       => out[i].tok.raw = Error("UnterminatedCharLiteral")

\* C6 amended: for a char literal in which every escape sequence is
\* well-formed, the token is CharLiteral, EmptyCharLiteral or
\* MoreThanOneCharInCharLiteral by the number of logical characters when a
\* quote closes it on its line, and Error(UnterminatedCharLiteral) when a
\* newline or end-of-file comes first.
WellFormedCharLiteralByCount ==
    \A i \in Calls :
        CharLiteralAt(i) =>
            LET u == CharContents(lexer.source, TokenIdx(i) + 1, 0) IN
            /\ u.ends = "closed" => ClosedCharLiteralToken(i, u)
            /\ u.ends = "cut" => out[i].tok.raw = Error("UnterminatedCharLiteral")

\* C6: a closed char literal with two logical characters, an escape among
\* them, was scanned.
TwoCharLiteralScanned ==
    \E i \in Calls :
        /\ CharLiteralAt(i)
        /\ LET u == CharContents(lexer.source, TokenIdx(i) + 1, 0) IN
               /\ u.ends = "closed"
               /\ u.count = 2
               /\ \E k \in (TokenIdx(i) + 1)..(u.at - 1) : lexer.source[k] = BACKSLASH

\* The two-character punctuators.
TwoCharPunctuators ==
    {<<"+", "+">>, <<"+", "=">>, <<"-", "-">>, <<"-", "=">>, <<"*", "*">>, <<"*", "=">>,
     <<"/", "=">>, <<"!", "=">>, <<">", ">">>, <<">", "=">>, <<"<", "<">>, <<"<", "=">>,
     <<"=", "=">>, <<"=", ">">>, <<"|", "=">>, <<"|", "|">>, <<"&", "&">>, <<"^", "=">>,
     <<"%", "=">>, <<".", ".">>}

\* C7: where a token starts with the two characters of a two-character
\* punctuator, the token is that punctuator with a span of length 2, and the
\* call consumes both characters.
TwoCharPunctuatorIsOneToken ==
    \A i \in Calls :
        LET p == TokenIdx(i) IN
        (p > 0 /\ <<At(lexer.source, p), At(lexer.source, p + 1)>> \in TwoCharPunctuators)
            => /\ out[i].tok = Token(At(lexer.source, p) \o At(lexer.source, p + 1),
                                     Span(Off(p), Off(p) + 2))
               /\ out[i].to = Off(p) + 2

\* Call i scans a comment that the call returns: any comment for
\* next_token, a doc comment for next_no_comments.
CommentAt(i) ==
    LET p == TokenIdx(i) IN
    /\ p > 0
    /\ At(lexer.source, p) = "/"
    /\ At(lexer.source, p + 1) = "/"
    /\ mode = "next_token" \/ At(lexer.source, p + 2) \in {"!", "/"}

\* C8: a comment is GlobalDocComment, LocalDocComment or Comment by its
\* third character, spans from the first slash to the newline or
\* end-of-file that ends it, and leaves the scanner at that newline.
CommentKindAndSpan ==
    \A i \in Calls :
        CommentAt(i) =>
            LET p == TokenIdx(i)
                third == At(lexer.source, p + 2)
                q == FirstOf(lexer.source, p + 2, {LF, NUL})
                kind == IF third = "!" THEN "GlobalDocComment"
                        ELSE IF third = "/" THEN "LocalDocComment"
                        ELSE "Comment"
            IN  /\ out[i].tok = Token(kind, Span(Off(p), Off(q)))
                /\ out[i].to = Off(q)

\* C8: a global doc comment with text in it, ended by a newline, was
\* scanned.
GlobalDocCommentScanned ==
    \E i \in Calls :
        /\ CommentAt(i)
        /\ LET p == TokenIdx(i)
               q == FirstOf(lexer.source, p + 2, {LF, NUL})
           IN  /\ At(lexer.source, p + 2) = "!"
               /\ q > p + 3
               /\ At(lexer.source, q) = LF
               /\ out[i].tok.raw = "GlobalDocComment"

\* The tokens of repeated next_token calls on a scanner, up to the first
\* EndOfFile (or for `calls` + 1 calls).
RECURSIVE TokensFrom(_, _)
TokensFrom(lx, calls) ==
    LET r == next_token(lx) IN
    IF r.tok.raw = "EndOfFile" \/ calls = 0
    THEN <<r.tok>>
    ELSE <<r.tok>> \o TokensFrom(r.lx, calls - 1)

NotPlainComment(tok) == tok.raw # "Comment"

\* The tokens next_token returns on the text being scanned, without the
\* plain comments.
TokensWithoutComments ==
    SelectSeq(TokensFrom(Lexer_new(lexer.source, EmptyInterner), Len(lexer.source)),
              NotPlainComment)

\* C9: the tokens returned by repeated next_no_comments are the tokens of
\* repeated next_token without the plain comments, in order and with the
\* same spans; after the last of them, EndOfFile again.
NoCommentsIsFilteredNextToken ==
    mode = "next_no_comments" =>
        \A i \in Calls :
            out[i].tok = IF i <= Len(TokensWithoutComments)
                         THEN TokensWithoutComments[i]
                         ELSE TokensWithoutComments[Len(TokensWithoutComments)]

\* C9: next_no_comments scanned to EndOfFile a text with a plain comment,
\* which it skipped, and a doc comment, which it returned.
CommentSkippedDocCommentKept ==
    /\ mode = "next_no_comments"
    /\ out # <<>>
    /\ out[Len(out)].tok.raw = "EndOfFile"
    /\ \E i \in Calls : out[i].tok.raw = "LocalDocComment"
    /\ \E k \in 1..Len(TokensFrom(Lexer_new(lexer.source, EmptyInterner), Len(lexer.source))) :
           TokensFrom(Lexer_new(lexer.source, EmptyInterner), Len(lexer.source))[k].raw = "Comment"

\* C10: two identifiers scanned with one interner, by the same scanner or
\* by two, have the same symbol exactly when they have the same text.
SymbolsMatchTexts ==
    \A a \in idents : \A b \in idents : (a.text = b.text) <=> (a.symbol = b.symbol)

\* C10: two scanners over one interner scanned the same identifier, and a
\* different identifier was scanned as well.
IdentifierScannedTwice ==
    /\ \E a \in idents : \E b \in idents : a.lexer # b.lexer /\ a.text = b.text
    /\ \E a \in idents : \E b \in idents : a.text # b.text

\* ------------------------------------------------------------------------
\* Properties of the parser
\* ------------------------------------------------------------------------

\* The token of an operator written at an offset.
OpToken(op, off) ==
    Token(IF Len(op) = 1 THEN op[1] ELSE op[1] \o op[2], Span(off, off + Len(op)))

\* The precedence of an operator of the chains.
PrecedenceOf(op) == to_precedence(OpToken(op, 0).raw)

\* a OP1 b OP2 c
ThreeOperands(a, op1, b, op2, c) ==
    a \o <<" ">> \o op1 \o <<" ">> \o b \o <<" ">> \o op2 \o <<" ">> \o c

\* The node is the operand x written at an offset: the name, or the binary
\* expression between the parentheses.
IsOperand(node, x, off) ==
    IF x[1] = "("
    THEN node.kind = "Binary" /\ node.span.start = off + 1 /\ node.op = OpToken(<<"=">>, off + 3)
    ELSE node.kind = "StaticName" /\ node.span = Span(off, off + Len(x))

\* Binary(Binary(a, OP1, b), OP2, c)
GroupsLeft(e, a, op1, b, op2, c) ==
    LET o1 == Len(a) + 1
        ob == o1 + Len(op1) + 1
        o2 == ob + Len(b) + 1
        oc == o2 + Len(op2) + 1
    IN  /\ e.kind = "Binary"
        /\ e.op = OpToken(op2, o2)
        /\ IsOperand(e.right, c, oc)
        /\ e.left.kind = "Binary"
        /\ e.left.span.start = e.left.left.span.start
        /\ e.left.op = OpToken(op1, o1)
        /\ IsOperand(e.left.left, a, 0)
        /\ IsOperand(e.left.right, b, ob)

\* Binary(a, OP1, Binary(b, OP2, c))
GroupsRight(e, a, op1, b, op2, c) ==
    LET o1 == Len(a) + 1
        ob == o1 + Len(op1) + 1
        o2 == ob + Len(b) + 1
        oc == o2 + Len(op2) + 1
    IN  /\ e.kind = "Binary"
        /\ e.op = OpToken(op1, o1)
        /\ IsOperand(e.left, a, 0)
        /\ e.right.kind = "Binary"
        /\ e.right.span.start = e.right.left.span.start
        /\ e.right.op = OpToken(op2, o2)
        /\ IsOperand(e.right.left, b, ob)
        /\ IsOperand(e.right.right, c, oc)

\* C11: a OP1 b OP2 c parses as Binary(a, OP1, Binary(b, OP2, c)) when OP2
\* has strictly greater precedence than OP1, and as
\* Binary(Binary(a, OP1, b), OP2, c) when it has strictly lower precedence.
PrecedenceDecidesGrouping ==
    parser.called = "parse_expression" =>
        \A a \in Operands, b \in Operands, c \in Operands, op1 \in Operators, op2 \in Operators :
            lexer.source = ThreeOperands(a, op1, b, op2, c) =>
                /\ parser.ok
                /\ PrecedenceOf(op2) > PrecedenceOf(op1)
                      => GroupsRight(parser.value, a, op1, b, op2, c)
                /\ PrecedenceOf(op2) < PrecedenceOf(op1)
                      => GroupsLeft(parser.value, a, op1, b, op2, c)

\* C11 witness: a + a * a is parsed, and the product is the right operand.
ProductGroupedUnderSum ==
    /\ parser.called = "parse_expression"
    /\ parser.ok
    /\ lexer.source = ThreeOperands(<<"a">>, <<"+">>, <<"a">>, <<"*">>, <<"a">>)
    /\ parser.value.right.kind = "Binary"

\* Every expression node of a tree.
RECURSIVE Nodes(_)
Nodes(e) ==
    LET Of(seq) == UNION {Nodes(seq[i]) : i \in 1..Len(seq)}
        OfBlock(block) == UNION {Nodes(block[i].expression) : i \in 1..Len(block)}
    IN  {e} \cup
        CASE e.kind = "Binary" -> Nodes(e.left) \cup Nodes(e.right)
          [] e.kind = "Call" -> Nodes(e.left) \cup Of(e.arguments)
          [] e.kind = "Property" -> Nodes(e.left)
          [] e.kind = "Index" -> Nodes(e.left) \cup Nodes(e.index)
          [] e.kind = "PrefixOrPostfix" -> Nodes(e.operand)
          [] e.kind = "As" -> Nodes(e.left)
          [] e.kind \in {"List", "ArrayLiteral"} ->
                Of(IF e.kind = "List" THEN e.list ELSE e.literal)
          [] e.kind = "If" ->
                Nodes(e.if_condition) \cup OfBlock(e.if_statements_block)
                \cup UNION {Nodes(e.else_if_chains[i].condition) \cup OfBlock(e.else_if_chains[i].block) :
                               i \in 1..Len(e.else_if_chains)}
                \cup (IF e.else_statements_block.some THEN OfBlock(e.else_statements_block.v) ELSE {})
          [] e.kind = "While" -> Nodes(e.condition) \cup OfBlock(e.block)
          [] OTHER -> {}

\* The parentheses opened and not closed between two offsets of the text.
RECURSIVE OpenParentheses(_, _, _)
OpenParentheses(source, from, to) ==
    IF from >= to THEN 0
    ELSE OpenParentheses(source, from + 1, to)
         + (IF source[from + 1] = "(" THEN 1 ELSE IF source[from + 1] = ")" THEN -1 ELSE 0)

\* C12: two operators of equal precedence group to the left, and the right
\* operand of a Binary node is never an unparenthesized binary expression
\* whose operator has a precedence lower than or equal to the node's.
BinaryOperatorsAreLeftAssociative ==
    parser.called = "parse_expression" /\ parser.ok =>
        /\ \A a \in Operands, b \in Operands, c \in Operands, op1 \in Operators, op2 \in Operators :
              /\ lexer.source = ThreeOperands(a, op1, b, op2, c)
              /\ PrecedenceOf(op2) = PrecedenceOf(op1)
              => GroupsLeft(parser.value, a, op1, b, op2, c)
        /\ \A n \in Nodes(parser.value) :
              /\ n.kind = "Binary"
              /\ n.right.kind = "Binary"
              /\ to_precedence(n.right.op.raw) <= to_precedence(n.op.raw)
              => OpenParentheses(lexer.source, n.op.span.end, n.right.op.span.start) > 0

\* C12 witness: a + a - a is parsed, and the sum is the left operand.
DifferenceOfSumGroupedLeft ==
    /\ parser.called = "parse_expression"
    /\ parser.ok
    /\ lexer.source = ThreeOperands(<<"a">>, <<"+">>, <<"a">>, <<"-">>, <<"a">>)
    /\ parser.value.left.kind = "Binary"
    /\ parser.value.right.kind = "StaticName"

\* The offset of element i of a list literal.
RECURSIVE ElementOffset(_, _)
ElementOffset(es, i) ==
    IF i = 1 THEN 1 ELSE ElementOffset(es, i - 1) + ByteLen(es[i - 1].text) + 2

\* The element sequence of a list expression.
ElementsOf(e) == IF e.kind = "List" THEN e.list ELSE e.literal

\* The list literal of the text, parsed again by the parser that was called.
ParsedAgain(text) ==
    IF parser.called = "parse_expression"
    THEN Call2(parse_expression, Call(Parser_new, Lexer_new(text, EmptyInterner)),
               Precedence("Lowest"))
    ELSE Call(ArrayLiteralExpressionParser, Call(Parser_new, Lexer_new(text, EmptyInterner)))

\* C13: a list literal written with a comma after its last element and the
\* one written without it give the same element sequence (the elements
\* written, in their order), and neither gives a diagnostic or an error.
TrailingCommaIsTolerated ==
    parser.called \in {"parse_expression", "ArrayLiteralExpressionParser"} =>
        \A es \in ElementSeqs, post \in {<<>>, <<" ", "a">>} :
            es # <<>> /\ lexer.source = ListText(es, TRUE) \o post =>
                LET other == ParsedAgain(ListText(es, FALSE) \o post) IN
                /\ parser.ok /\ other.ok
                /\ parser.state.diagnostics = <<>> /\ other.p.diagnostics = <<>>
                /\ parser.value.kind \in {"List", "ArrayLiteral"}
                /\ ElementsOf(parser.value) = ElementsOf(other.v)
                /\ Len(ElementsOf(parser.value)) = Len(es)
                /\ \A i \in 1..Len(es) :
                      /\ ElementsOf(parser.value)[i].kind = es[i].kind
                      /\ ElementsOf(parser.value)[i].span.start = ElementOffset(es, i)

\* C13 witness: a list of two elements with a comma after the second is
\* parsed.
TwoElementsAndTrailingCommaParsed ==
    /\ parser.called = "ArrayLiteralExpressionParser"
    /\ parser.ok
    /\ \E es \in ElementSeqs : Len(es) = 2 /\ lexer.source = ListText(es, TRUE)
    /\ Len(parser.value.literal) = 2

\* The types of a sequence are the element types written, in their order.
AreElementTypes(types, ts) ==
    /\ Len(types) = Len(ts)
    /\ \A i \in 1..Len(ts) :
          types[i].kind = ts[i].kind /\ types[i].span.start = ElementOffset(ts, i)

\* C14: `()` is a Tuple with no elements; `(Type)` with no trailing comma is
\* Parenthesized, whatever white space or comment lies between the element
\* and `)`; `(Type,)` is a one-element Tuple; two or more elements are a
\* Tuple of them in order; followed by `: ReturnType` it is a Function type
\* with those parameter types and that return type.
ParenthesesClassifyTypes ==
    parser.called = "TypeParser" =>
        \A ts \in TypeElementSeqs, trailing \in BOOLEAN, gap \in Gaps, ret \in BOOLEAN :
            (trailing => ts # <<>>) /\ lexer.source = ParenthesesText(ts, trailing, gap, ret) =>
                /\ parser.ok
                /\ LET t == parser.value IN
                   IF ret
                   THEN /\ t.kind = "Function"
                        /\ AreElementTypes(t.parameter_types, ts)
                        /\ t.return_type.kind = "Path"
                        /\ t.return_type.span = Span(ByteLen(lexer.source) - 1, ByteLen(lexer.source))
                   ELSE IF Len(ts) = 1 /\ ~trailing
                   THEN t.kind = "Parenthesized" /\ AreElementTypes(<<t.inner>>, ts)
                   ELSE t.kind = "Tuple" /\ AreElementTypes(t.element_types, ts)

\* The entry is a type followed by a `=` that makes no binding of it.
StrayEquals(entry) == entry.equals /\ entry.kind = "Type"

\* The generic arguments of the type path `a[...]`.
GenericArgumentsOf(type) == type.segments[1].generic_arguments.v

\* C15: every entry of a generic-argument list becomes
\* GenericArgument::Type, unless it is a single name followed by `=`, which
\* becomes GenericArgument::AssociatedType of that name; no other entry is
\* turned into a binding or dropped without a diagnostic.
GenericEntriesAreTypesOrBindings ==
    parser.called = "TypeParser" =>
        \A es \in GenericEntrySeqs :
            lexer.source = GenericText(es) =>
                IF \E i \in 1..Len(es) : StrayEquals(es[i])
                THEN parser.state.diagnostics # <<>>
                ELSE /\ parser.ok
                     /\ parser.state.diagnostics = <<>>
                     /\ parser.value.segments[1].generic_arguments.some
                     /\ Len(GenericArgumentsOf(parser.value)) = Len(es)
                     /\ \A i \in 1..Len(es) :
                           LET g == GenericArgumentsOf(parser.value)[i] IN
                           /\ g.kind = es[i].kind
                           /\ g.kind = "Type" => g.ty.span.start = ElementOffset(es, i) + 1
                           /\ g.kind = "AssociatedType" =>
                                 /\ g.name.span.start = ElementOffset(es, i) + 1
                                 /\ g.value.kind = "Path"

\* The items among the pieces of a module.
IsItem(piece) == piece.item

ItemsOf(ps) == SelectSeq(ps, IsItem)

\* The kind of a parsed item.
ItemKind(parsed) == parsed.item.kind

\* C16: a token that begins no item is reported by one unexpected-token
\* diagnostic and skipped, and the items after it are still parsed: the
\* item sequence of the result holds every well-formed item of the text.
ItemsAfterStrayTokenAreParsed ==
    parser.called = "ItemsParser" =>
        \A ps \in PieceSeqs :
            lexer.source = ModuleText(ps) =>
                /\ parser.ok
                /\ Len(parser.value) = Len(ItemsOf(ps))
                /\ \A i \in 1..Len(ItemsOf(ps)) :
                       ItemKind(parser.value[i]) = ItemsOf(ps)[i].kind
                /\ Len(parser.state.diagnostics) = Len(ps) - Len(ItemsOf(ps))
                /\ \A i \in 1..Len(parser.state.diagnostics) :
                       /\ parser.state.diagnostics[i].kind = "UnexpectedToken"
                       /\ parser.state.diagnostics[i].node = "item"

\* The kinds of the expressions without operands.
LeafKinds == {"StaticName", "Int", "Float", "Imag", "String", "Char", "Bool"}

\* The kind and the span of every node with operands of an expression.
SpansOf(e) == {[kind |-> n.kind, span |-> n.span] : n \in {x \in Nodes(e) : x.kind \notin LeafKinds}}

\* The kind and the span of every node with operands of a form: from the
\* start of its first token to the end of its last token.
FormSpans(form) ==
    LET off == IF form.prefix THEN 1 ELSE 0
        n == Len(form.suffixes)
    IN  {[kind |-> form.base.kind, span |-> Span(off, off + Len(form.base.text))] :
            x \in {form.base} \ {b \in Bases : b.kind = "StaticName"}}
        \cup {[kind |-> form.suffixes[k].kind, span |-> Span(off, off + Len(FormBody(form, k)))] :
                 k \in 1..n}
        \cup {[kind |-> "PrefixOrPostfix", span |-> Span(0, off + Len(FormBody(form, n)))] :
                 x \in {form} \ {f \in Forms : ~f.prefix}}

\* C17: every expression node spans from the start of its first token to
\* the end of the last token consumed for it, never to the end of the
\* lookahead token: binary, call, index, property, postfix, cast, prefix,
\* list, if and while expressions, and the array literal.
SpansEndAtLastConsumedToken ==
    /\ parser.called = "parse_expression" =>
           \A form \in Forms :
               lexer.source = FormText(form) =>
                   parser.ok /\ SpansOf(parser.value) = FormSpans(form)
    /\ parser.called = "ArrayLiteralExpressionParser" =>
           \A form \in Forms :
               lexer.source = FormText(form) =>
                   /\ parser.ok
                   /\ parser.value.kind = "ArrayLiteral"
                   /\ parser.value.span = Span(0, Len(form.base.text))

\* The literal leaves of an expression.
LiteralLeaves(e) == {n \in Nodes(e) : n.kind \in LeafKinds \ {"StaticName"}}

\* C18: the span of every literal leaf is the span of the token of the
\* literal: the text between span.start and span.end is the spelling of the
\* literal, with its quotes and with the characters of more than one byte.
LiteralSpanIsTokenSpan ==
    parser.called = "parse_expression" =>
        \A form \in LiteralForms :
            lexer.source = LiteralText(form) =>
                /\ parser.ok
                /\ {[kind |-> n.kind, span |-> n.span] : n \in LiteralLeaves(parser.value)}
                   = {[kind |-> form.literals[i].kind,
                       span |-> Span(ByteLen(BeforeLiteral(form, i)),
                                     ByteLen(BeforeLiteral(form, i))
                                     + ByteLen(form.literals[i].text))] :
                         i \in 1..Len(form.literals)}
                /\ \A n \in LiteralLeaves(parser.value) :
                       \E i \in 1..Len(form.literals) :
                           /\ n.kind = form.literals[i].kind
                           /\ Slice(lexer.source, n.span.start, n.span.end)
                              = form.literals[i].text

\* A string literal with a character of two bytes and a character literal
\* of two bytes were parsed behind a name of two bytes.
TwoByteLiteralsParsed ==
    /\ parser.called = "parse_expression"
    /\ parser.ok
    /\ lexer.source[1] = "U+00E9"
    /\ \E n \in LiteralLeaves(parser.value) :
           /\ n.kind = "String"
           /\ n.span.end - n.span.start = 6
           /\ Slice(lexer.source, n.span.start, n.span.end)
              = <<DQUOTE, "U+00E9", BACKSLASH, "n", DQUOTE>>
    /\ \E n \in LiteralLeaves(parser.value) :
           /\ n.kind = "Char"
           /\ n.span.end - n.span.start = 4

\* The depths, up to a depth, of the scopes to which a binding of the
\* symbol was added.
BoundDepths(depth, symbol) ==
    {k \in 1..depth : \E i \in 1..Len(scopes.added) :
                          scopes.added[i].depth = k /\ scopes.added[i].symbol = symbol}

\* The value added last for the symbol to the scope at a depth.
LastAdded(depth, symbol) ==
    LET is == {i \in 1..Len(scopes.added) :
                  scopes.added[i].depth = depth /\ scopes.added[i].symbol = symbol}
    IN  scopes.added[CHOOSE i \in is : \A j \in is : j <= i].value

\* The binding added last for the symbol to the nearest scope that has one.
NearestBinding(depth, symbol) ==
    LET ds == BoundDepths(depth, symbol) IN
    IF ds = {} THEN None
    ELSE Some(LastAdded(CHOOSE k \in ds : \A j \in ds : j <= k, symbol))

\* C19: Scope::lookup returns the binding added last for the symbol in the
\* nearest scope, of the scope and its parents, that has one, and None when
\* none has one; a binding added to an inner scope changes no lookup on its
\* parents.
LookupReturnsNearestBinding ==
    /\ [](scopes.found.some =>
             scopes.found.v.value
             = NearestBinding(scopes.found.v.depth, scopes.found.v.symbol))
    /\ [][Len(scopes'.added) > Len(scopes.added) =>
             \A depth \in 1..(Len(scopes.chain) - 1), symbol \in Symbols :
                 Scope_lookup(scopes'.chain, depth, symbol)
                 = Scope_lookup(scopes.chain, depth, symbol)]_vars

\* A lookup on an inner scope without a binding of the symbol returned the
\* second of the two bindings added to its parent.
ShadowedParentBindingFound ==
    /\ scopes.found.some
    /\ scopes.found.v.depth = 2
    /\ Len(scopes.added) = 3
    /\ scopes.added[1].symbol = scopes.found.v.symbol
    /\ scopes.added[2].symbol = scopes.found.v.symbol
    /\ scopes.added[1].depth = 1
    /\ scopes.added[2].depth = 1
    /\ scopes.added[1].value # scopes.added[2].value
    /\ scopes.added[3].depth = 2
    /\ scopes.added[3].symbol # scopes.found.v.symbol
    /\ scopes.found.v.value = Some(scopes.added[2].value)

\* The output of call i of the serializer.
Written(i) ==
    SubSeq(serializer.output, serializer.calls[i].from + 1,
           IF i = Len(serializer.calls) THEN Len(serializer.output)
           ELSE serializer.calls[i + 1].from)

\* The number a sequence of digits denotes, -1 when it is no number.
RECURSIVE Denoted(_)
Denoted(digits) ==
    IF digits = <<>> \/ \E i \in 1..Len(digits) : \A d \in 1..10 : Digits[d] # digits[i]
    THEN -1
    ELSE LET last == (CHOOSE d \in 1..10 : Digits[d] = digits[Len(digits)]) - 1 IN
         IF Len(digits) = 1 THEN last
         ELSE 10 * Denoted(SubSeq(digits, 1, Len(digits) - 1)) + last

\* The text is `start..end`.
IsRange(text, start, end) ==
    \E k \in 2..(Len(text) - 2) :
        /\ text[k] = "." /\ text[k + 1] = "."
        /\ Denoted(SubSeq(text, 1, k - 1)) = start
        /\ Denoted(SubSeq(text, k + 2, Len(text))) = end

\* The text is what is written for the value: TRUE or FALSE for a boolean,
\* DUMMY for the dummy span, INVALID for a span that ends before it starts,
\* start..end for every other span.
IsTextOf(text, value) ==
    IF value.type = "bool"
    THEN text = (IF value.bool THEN <<"T", "R", "U", "E">> ELSE <<"F", "A", "L", "S", "E">>)
    ELSE IF value.span = DUMMY_SPAN THEN text = <<"D", "U", "M", "M", "Y">>
    ELSE IF ~(value.span.end >= value.span.start)
         THEN text = <<"I", "N", "V", "A", "L", "I", "D">>
    ELSE IsRange(text, value.span.start, value.span.end)

\* The text is the lines of the items: each a newline, the tabs of the
\* indentation and the text of the item.
RECURSIVE AreLinesOf(_, _, _)
AreLinesOf(text, items, identation) ==
    IF items = <<>> THEN text = <<>>
    ELSE \E n \in (identation + 1)..Len(text) :
             /\ text[1] = LF
             /\ \A i \in 2..(identation + 1) : text[i] = TAB
             /\ IsTextOf(SubSeq(text, identation + 2, n), Head(items))
             /\ AreLinesOf(SubSeq(text, n + 1, Len(text)), Tail(items), identation)

\* C20: the serializer writes DUMMY for the dummy span, INVALID only for a
\* span that violates end >= start and start..end for every other span,
\* EMPTY for every empty list, TRUE and FALSE for the booleans.
SentinelsAreWritten ==
    \A i \in 1..Len(serializer.calls) :
        LET call == serializer.calls[i] IN
        IF call.kind = "value" THEN IsTextOf(Written(i), call.value)
        ELSE IF call.kind # "items" THEN TRUE
        ELSE IF call.value = <<>> THEN Written(i) = <<"E", "M", "P", "T", "Y">>
        ELSE AreLinesOf(Written(i), call.value, call.identation + 1)

\* The function item of the text that was parsed.
FunctionEntry == CHOOSE e \in FunctionEntries : FunctionText(e) = lexer.source

\* C21: a function item made of `fun`, a name, optional generic parameters,
\* the arguments `name: Type` with an optional default each, an optional
\* return type and an optional where clause is parsed without error;
\* parse_function returns a definition without a body and consumes the `;`
\* exactly when the token after the signature is `;`, and otherwise parses
\* the block and returns a declaration with that body.
FunctionItemsAreParsed ==
    parser.called = "parse_function" =>
        LET e == FunctionEntry
            definition == parser.value.definition
        IN  /\ parser.ok
            /\ definition.generics.some = e.generics.some
            /\ Len(definition.arguments) = Len(e.arguments)
            /\ \A i \in 1..Len(e.arguments) :
                   definition.arguments[i].default_value.some = e.arguments[i].default
            /\ definition.return_type.some = e.return_type.some
            /\ definition.where.some = e.where.some
            /\ parser.state.next.raw = e.end.left
            /\ IF e.end.body
               THEN /\ parser.value.kind = "FunctionDeclaration"
                    /\ parser.value.body.some
                    /\ Len(parser.value.body.v) = e.end.statements
                    /\ parser.state.current.raw = "}"
               ELSE /\ parser.value.kind = "FunctionDefinition"
                    /\ ~parser.value.body.some
                    /\ parser.state.current.raw = ";"
                    /\ parser.state.current.span.end = ByteLen(lexer.source)

\* C21, witness: a function with generic parameters, two arguments with a
\* default, a return type and a where clause was parsed, with a body.
FullFunctionParsed ==
    /\ parser.called = "parse_function"
    /\ parser.ok
    /\ parser.value.kind = "FunctionDeclaration"
    /\ parser.value.definition.generics.some
    /\ Len(parser.value.definition.arguments) = 2
    /\ parser.value.definition.arguments[2].default_value.some
    /\ parser.value.definition.return_type.some
    /\ parser.value.definition.where.some
    /\ parser.state.next.raw = ";"

\* C22: the tokens returned by successive calls have non-empty spans, and
\* each token's span starts at or after the end of the span of the token
\* returned before it, also when that token is a lexical error. The calls
\* after the first EndOfFile return the same token again and are left out.
TokenSpansIncrease ==
    \A i \in 1..Len(out) :
        /\ out[i].tok.span.start < out[i].tok.span.end
        /\ (i > 1 /\ out[i - 1].tok.raw # "EndOfFile") =>
               out[i].tok.span.start >= out[i - 1].tok.span.end

\* C23: a string or char literal whose first escape sequence is malformed is
\* one token, the error, for the whole literal: the call that returns the
\* error leaves the scanner after the quote that closes the literal, or at
\* the newline or end-of-file that comes before such a quote, and the next
\* token starts there or later.
MalformedLiteralIsOneToken ==
    \A i \in Calls :
        (HexEscapeIdx(i) > 0 /\ FirstEscapeFault(lexer.source, HexEscapeIdx(i)).kind # "") =>
            LET f == FirstEscapeFault(lexer.source, HexEscapeIdx(i))
                quote == At(lexer.source, TokenIdx(i))
                end == FirstOf(lexer.source, f.at, {quote, LF, NUL})
                resume == IF At(lexer.source, end) = quote THEN Off(end + 1) ELSE Off(end)
            IN  /\ out[i].tok.raw = Error(f.kind)
                /\ out[i].to = resume
                /\ i < Len(out) => out[i + 1].tok.span.start >= resume

\* The index of the first character from k on that is not a character of a
\* name, or Len + 1.
RECURSIVE NameEnd(_, _)
NameEnd(source, k) ==
    IF k <= Len(source) /\ (is_alphanumeric(source[k]) \/ source[k] = "_")
    THEN NameEnd(source, k + 1)
    ELSE k

\* C24: a back-tick-quoted identifier is one token: Identifier with the text
\* between the back-ticks interned when the text is not empty and a
\* back-tick closes it, Error(EmptyWrappedIdentifier) over both back-ticks
\* when nothing lies between them, the second back-tick consumed, and
\* Error(UnterminatedWrappedIdentifier) when the closing back-tick is missing.
WrappedIdentifierIsOneToken ==
    \A i \in Calls :
        (TokenIdx(i) > 0 /\ At(lexer.source, TokenIdx(i)) = BACKTICK) =>
            LET p == TokenIdx(i)
                e == NameEnd(lexer.source, p + 1)
                name == SubSeq(lexer.source, p + 1, e - 1)
            IN  IF At(lexer.source, e) # BACKTICK
                THEN out[i].tok.raw = Error("UnterminatedWrappedIdentifier")
                ELSE IF name = <<>>
                THEN /\ out[i].tok = Token(Error("EmptyWrappedIdentifier"), Span(Off(p), Off(p) + 2))
                     /\ out[i].to = Off(p) + 2
                ELSE /\ out[i].tok = Token("Identifier", Span(Off(p), Off(e + 1)))
                     /\ out[i].to = Off(e + 1)
                     /\ lexer.interner[out[i].symbol] = name

\* C25: when the type parser or the parser of generic arguments returns no
\* result, at least one diagnostic was appended during the call (the sink
\* is empty before the call): no failure is silent.
NoSilentTypeFailure ==
    parser.called \in {"TypeParser", "GenericArgumentsParser"}
        => (parser.ok \/ parser.state.diagnostics # <<>>)

\* The members of a sequence.
Members(s) == {s[i] : i \in 1..Len(s)}

\* C26: the unexpected-token diagnostic of the type parser and of the item
\* parser carries the token met and an expected-set that is the set of
\* tokens the parser dispatches on: `(`, identifier, `dyn`, `[` for a type,
\* every item keyword accepted for an item; the type parser consumes no
\* token when it reports it.
ExpectedSetIsDispatchSet ==
    /\ parser.called = "TypeParser" =>
           \A i \in 1..Len(parser.state.diagnostics) :
               LET d == parser.state.diagnostics[i] IN
               (d.kind = "UnexpectedToken" /\ d.node = "type") =>
                   /\ Members(d.expected) = {"(", "identifier", "dyn", "["}
                   /\ d.got.raw \notin {"(", "Identifier", "dyn", "["}
                   /\ (i = Len(parser.state.diagnostics) /\ ~parser.ok) => parser.state.next = d.got
    /\ (/\ parser.called = "ItemsParser"
        /\ ~parser.ok
        /\ parser.value.kind = "UnexpectedToken"
        /\ parser.value.node = "item") =>
               /\ Members(parser.value.expected) = {"import", "fun", "trait", "enum", "struct", "impl"}
               /\ parser.value.got.raw \notin {"pub", "import", "fun", "trait", "enum", "struct", "impl"}

\* C27: serialization keeps the indentation balanced: every call of a
\* Serialize implementation leaves the serializer at the level it started
\* with, no Serialize implementation calls decrement_indentation at level 0,
\* and serialize_ast of a module leaves the level 0.
IndentationIsBalanced ==
    \A i \in 1..Len(serializer.calls) :
        serializer.calls[i].kind \in {"value", "serialize_ast"} =>
            /\ serializer.calls[i].left = serializer.calls[i].identation
            /\ ~serializer.calls[i].underflow
            /\ (serializer.calls[i].kind = "serialize_ast" => serializer.calls[i].left = 0)

\* C27 witness: serialize_ast has serialized a module that holds an item of
\* every variant (an enum, a function, an implementation, a struct, a trait,
\* a tuple-like struct, a type alias and an import), whose types, paths and
\* identifiers are nested several levels deep.
ModuleOfEveryItemSerialized ==
    /\ Len(serializer.calls) = 1
    /\ serializer.calls[1].kind = "serialize_ast"
    /\ {serializer.calls[1].value.items[k].variant : k \in 1..Len(serializer.calls[1].value.items)}
           = {"Enum", "Function", "Impl", "Struct", "Trait", "TupleLikeStruct", "TypeAlias", "Import"}
    /\ Len(serializer.output) > 1000
    /\ serializer.identation = 0

\* The node name a serialized node begins with: the text before the span,
\* the argument or the end of the line.
NodeName(text) == SubSeq(text, 1, FirstOf(text, 1, {"@", "(", LF}) - 1)

\* C28: no two variants of Pattern are written with the same node name: the
\* name a serialized pattern begins with is not the name any pattern of
\* another variant begins with, so that the name tells the variant (in
\* particular Tuple and TupleLike).
OneNodeNamePerVariant ==
    \A i \in 1..Len(serializer.calls) :
        (serializer.calls[i].kind = "value" /\ serializer.calls[i].value.type = "Pattern")
        => \A other \in Patterns :
               other.variant # serializer.calls[i].value.variant
               => NodeName(serialize(NoSerializer, other).output) # NodeName(Written(i))

\* The number of `else if` pairs the clauses begin with.
RECURSIVE LeadingPairs(_)
LeadingPairs(clauses) ==
    IF clauses = <<>> \/ ~Head(clauses).chained THEN 0 ELSE 1 + LeadingPairs(Tail(clauses))

\* C29: an if-expression is the first condition/block pair, then one pair
\* for each `else if` in the order of the text, then at most one else
\* block: an `else` followed by `if` gives a pair and never the else block,
\* the loop stops after the else block, and an `else` after it is left
\* unconsumed.
IfChainIsParsed ==
    parser.called = "parse_expression" =>
        \A first \in FirstPairs, clauses \in ClauseSeqs :
            lexer.source = IfText(first, clauses) =>
                LET k == LeadingPairs(clauses)
                    if == parser.value
                    names == parser.state.lexer.interner
                IN  /\ parser.ok
                    /\ parser.state.diagnostics = <<>>
                    /\ if.kind = "If"
                    /\ if.if_condition.kind = first.condition
                    /\ Len(if.if_statements_block) = first.statements
                    /\ Len(if.else_if_chains) = k
                    /\ \A i \in 1..k :
                           /\ if.else_if_chains[i].condition.kind = "StaticName"
                           /\ names[if.else_if_chains[i].condition.value] = clauses[i].condition
                           /\ Len(if.else_if_chains[i].block) = clauses[i].statements
                    /\ if.else_statements_block.some = (k < Len(clauses))
                    /\ (k < Len(clauses) =>
                           Len(if.else_statements_block.v) = clauses[k + 1].statements)
                    /\ IF k + 1 < Len(clauses)
                       THEN /\ parser.state.next.raw = "else"
                            /\ parser.state.next.span.start
                                   = Len(IfText(first, SubSeq(clauses, 1, k + 1)))
                       ELSE parser.state.next.raw = "EndOfFile"

\* C29 witness: an if-expression with an else block has been parsed from a
\* text in which another `else` follows the else block.
ElseAfterElseBlockParsed ==
    /\ parser.called = "parse_expression"
    /\ parser.ok
    /\ parser.value.kind = "If"
    /\ Len(parser.value.if_statements_block) = 2
    /\ parser.value.else_if_chains = <<>>
    /\ parser.value.else_statements_block.some
    /\ parser.state.next.raw = "else"

\* C30: every token that the conversions to RawBinaryOperator,
\* RawPrefixOperator and RawPostfixOperator accept is scanned as one token
\* where the text spells it (the token of that spelling, spanning it, with
\* the scanner left after it), and an operator converted to its token and
\* back is the same operator.
OperatorTokensAreScanned ==
    /\ \A operator \in RawBinaryOperators :
           RawBinaryOperator_from(RawToken_from_RawBinaryOperator(operator)) = operator
    /\ \A operator \in RawPrefixOperators :
           RawPrefixOperator_from(RawToken_from_RawPrefixOperator(operator)) = operator
    /\ \A operator \in RawPostfixOperators :
           RawPostfixOperator_from(RawToken_from_RawPostfixOperator(operator)) = operator
    /\ \A text \in OperatorSpellings, tail \in OperatorTails :
           (lexer.source = text \o tail /\ out # <<>>)
               => /\ out[1].tok = Token(Spelled(text), Span(0, Len(text)))
                  /\ out[1].to = Len(text)

====
